---- MODULE Spec2Model ----
(***************************************************************************)
(* quack-diff reconciliation core: identifier sanitizer, query builder and *)
(* DataDiffer, modelled as a state machine over an execution backend.      *)
(*                                                                         *)
(* Identifiers, column names and SQL type names are sequences of           *)
(* one-character strings so that the regular expressions, strip(),         *)
(* split(), lower() and startswith() of the source can be computed.  Cell  *)
(* values are tagged records; their text form is a TLA+ string.            *)
(***************************************************************************)
EXTENDS Integers, Sequences, FiniteSets, TLC

\* ------------------------------------------------------------------------
\* Characters
\* ------------------------------------------------------------------------

LowerChars ==
    << "a","b","c","d","e","f","g","h","i","j","k","l","m",
       "n","o","p","q","r","s","t","u","v","w","x","y","z" >>

UpperChars ==
    << "A","B","C","D","E","F","G","H","I","J","K","L","M",
       "N","O","P","Q","R","S","T","U","V","W","X","Y","Z" >>

DigitChars == << "0","1","2","3","4","5","6","7","8","9" >>

Range(s) == { s[i] : i \in DOMAIN s }

IsLetter(c) == c \in Range(LowerChars) \cup Range(UpperChars)

IsDigit(c) == c \in Range(DigitChars)

\* \w of the re module, restricted to the ASCII alphabet of the model
IsWordChar(c) == IsLetter(c) \/ IsDigit(c) \/ c = "_"

\* str.strip() without arguments strips these
Whitespace == { " ", "\t", "\n" }

UpperChar(c) ==
    IF c \in Range(LowerChars)
    THEN UpperChars[CHOOSE i \in DOMAIN LowerChars : LowerChars[i] = c]
    ELSE c

LowerChar(c) ==
    IF c \in Range(UpperChars)
    THEN LowerChars[CHOOSE i \in DOMAIN UpperChars : UpperChars[i] = c]
    ELSE c

\* str.upper() / str.lower()
Upper(s) == [ i \in DOMAIN s |-> UpperChar(s[i]) ]

Lower(s) == [ i \in DOMAIN s |-> LowerChar(s[i]) ]

\* str.startswith(prefix)
StartsWith(s, p) == Len(p) <= Len(s) /\ SubSeq(s, 1, Len(p)) = p

RECURSIVE LStrip(_, _)
LStrip(s, cs) ==
    IF s # << >> /\ Head(s) \in cs THEN LStrip(Tail(s), cs) ELSE s

RECURSIVE RStrip(_, _)
RStrip(s, cs) ==
    IF s # << >> /\ s[Len(s)] \in cs THEN RStrip(SubSeq(s, 1, Len(s) - 1), cs) ELSE s

\* str.strip(chars)
Strip(s, cs) == RStrip(LStrip(s, cs), cs)

\* position of the first occurrence of c in s, 0 when absent
RECURSIVE IndexOf(_, _, _)
IndexOf(s, c, i) ==
    IF i > Len(s) THEN 0
    ELSE IF s[i] = c THEN i
    ELSE IndexOf(s, c, i + 1)

\* str.split(sep) for a one-character separator
RECURSIVE Split(_, _)
Split(s, sep) ==
    LET i == IndexOf(s, sep, 1)
    IN  IF i = 0 THEN << s >>
        ELSE << SubSeq(s, 1, i - 1) >> \o Split(SubSeq(s, i + 1, Len(s)), sep)

\* ------------------------------------------------------------------------
\* Regular expressions of sql_utils.py (re.search with re.IGNORECASE)
\* ------------------------------------------------------------------------

\* positions at which the literal p occurs in s, case-insensitively
MatchStarts(s, p) ==
    { i \in 1 .. (Len(s) - Len(p) + 1) :
        Upper(SubSeq(s, i, i + Len(p) - 1)) = Upper(p) }

\* re.search(<literal>, s, re.IGNORECASE)
ContainsLiteral(s, p) == MatchStarts(s, p) # {}

\* \b before position i and \b after position j, for a match s[i..j] that
\* begins and ends with a word character
BoundaryBefore(s, i) == i = 1 \/ ~IsWordChar(s[i - 1])

BoundaryAfter(s, j) == j = Len(s) \/ ~IsWordChar(s[j + 1])

\* end positions of the matches of \bword\b
WordEnds(s, w) ==
    { i + Len(w) - 1 : i \in { k \in MatchStarts(s, w) :
          BoundaryBefore(s, k) /\ BoundaryAfter(s, k + Len(w) - 1) } }

\* re.search(r"\bword\b", s, re.IGNORECASE)
ContainsWord(s, w) == WordEnds(s, w) # {}

\* "." of the re module matches everything but a newline
NoNewline(s, i, j) == \A k \in i .. j : s[k] # "\n"

\* re.search(r"\bword\b.*=.*=", s, re.IGNORECASE)
BooleanInjection(s, w) ==
    \E e \in WordEnds(s, w) :
        \E a \in (e + 1) .. Len(s), b \in (e + 1) .. Len(s) :
            a < b /\ s[a] = "=" /\ s[b] = "=" /\ NoNewline(s, e + 1, b)

\* re.search(r"\bSELECT\b.*\bFROM\b", s, re.IGNORECASE)
NestedSelect(s) ==
    \E e \in WordEnds(s, << "S","E","L","E","C","T" >>) :
        \E f \in WordEnds(s, << "F","R","O","M" >>) :
            f - 3 > e /\ NoNewline(s, e + 1, f)

\* the keyword list without UNION
DangerousKeywords_NoUnion ==
    { << "D","R","O","P" >>,
      << "D","E","L","E","T","E" >>,
      << "I","N","S","E","R","T" >>,
      << "U","P","D","A","T","E" >>,
      << "E","X","E","C" >>,
      << "C","R","E","A","T","E" >> }

\* the keywords of sanitize_identifier's \bKEYWORD\b patterns
DangerousKeywords ==
    { << "U","N","I","O","N" >>,
      << "D","R","O","P" >>,
      << "D","E","L","E","T","E" >>,
      << "I","N","S","E","R","T" >>,
      << "U","P","D","A","T","E" >>,
      << "E","X","E","C" >>,
      << "C","R","E","A","T","E" >> }

\* any pattern of sanitize_identifier's dangerous_patterns matches
MatchesDangerousPattern(s) ==
    \/ ContainsLiteral(s, << ";" >>)
    \/ ContainsLiteral(s, << "-","-" >>)
    \/ ContainsLiteral(s, << "/","*" >>)
    \/ ContainsLiteral(s, << "*","/" >>)
    \/ BooleanInjection(s, << "O","R" >>)
    \/ BooleanInjection(s, << "A","N","D" >>)
    \/ NestedSelect(s)
    \/ \E w \in DangerousKeywords : ContainsWord(s, w)
    \/ ContainsLiteral(s, << "x","p","_" >>)

\* the backtick character (U+0060), which a TLA+ string literal cannot hold
Backtick == "BACKTICK"

\* the character class of sanitize_identifier: word characters, dot,
\* hyphen, backtick and double quote
IsIdentifierChar(c) == IsWordChar(c) \/ c \in { ".", "-", Backtick, "\"" }

\* part.strip() of sanitize_identifier and quote_identifier strips these
IdentifierQuotes == { Backtick, "\"", "'" }

\* default max_length of sanitize_identifier
MaxIdentifierLength == 255

\* the part check admitting a letter only as first character
PartOk_LetterOnly(part) ==
    LET clean_part == Strip(part, IdentifierQuotes)
    IN  clean_part # << >> /\ IsLetter(clean_part[1])

\* one dot-separated part: non-empty once unquoted, starts with [a-zA-Z_]
PartOk(part) ==
    LET clean_part == Strip(part, IdentifierQuotes)
    IN  clean_part # << >> /\ (IsLetter(clean_part[1]) \/ clean_part[1] = "_")

\* sanitize_identifier: [ok, value] on success, [ok, error] on failure
sanitize_identifier(identifier) ==
    LET stripped == Strip(identifier, Whitespace)
        parts    == Split(stripped, ".")
    IN  IF identifier = << >> THEN [ok |-> FALSE, error |-> "ValueError"]
        ELSE IF Len(identifier) > MaxIdentifierLength
             THEN [ok |-> FALSE, error |-> "ValueError"]
        ELSE IF stripped = << >> THEN [ok |-> FALSE, error |-> "ValueError"]
        ELSE IF MatchesDangerousPattern(stripped)
             THEN [ok |-> FALSE, error |-> "SQLInjectionError"]
        ELSE IF \E i \in DOMAIN stripped : ~IsIdentifierChar(stripped[i])
             THEN [ok |-> FALSE, error |-> "SQLInjectionError"]
        ELSE IF Len(parts) > 3
             THEN [ok |-> FALSE, error |-> "SQLInjectionError"]
        ELSE IF \E i \in DOMAIN parts : ~PartOk(parts[i])
             THEN [ok |-> FALSE, error |-> "SQLInjectionError"]
        ELSE [ok |-> TRUE, value |-> stripped]

\* sep.join(parts) for a one-character separator
RECURSIVE Join(_, _)
Join(parts, sep) ==
    IF parts = << >> THEN << >>
    ELSE IF Len(parts) = 1 THEN parts[1]
    ELSE parts[1] \o << sep >> \o Join(Tail(parts), sep)

\* quote_identifier: every part unquoted, the whole sanitized, every part of
\* what the sanitizer returns wrapped in double quotes
quote_identifier(identifier) ==
    LET parts       == Split(identifier, ".")
        clean_parts == [ i \in DOMAIN parts |-> Strip(parts[i], IdentifierQuotes) ]
        sanitized   == sanitize_identifier(Join(clean_parts, "."))
    IN  IF ~sanitized.ok THEN sanitized
        ELSE LET again == Split(sanitized.value, ".")
             IN  [ ok    |-> TRUE,
                   value |-> Join([ i \in DOMAIN again |->
                                      << "\"" >> \o again[i] \o << "\"" >> ], ".") ]

\* the character class of sanitize_path: word characters, dot, hyphen,
\* slash, colon, tilde, parentheses, brackets and space
IsPathChar(c) ==
    IsWordChar(c) \/ c \in { ".", "-", "/", ":", "~", "(", ")", "[", "]", " " }

\* re.match(r"^[...]+$", path): "$" also matches before a final newline
MatchesPathClass(path) ==
    LET body == IF Len(path) > 1 /\ path[Len(path)] = "\n"
                THEN SubSeq(path, 1, Len(path) - 1)
                ELSE path
    IN  body # << >> /\ \A i \in DOMAIN body : IsPathChar(body[i])

\* sanitize_path without the two comment patterns
sanitize_path_NoComments(path) ==
    IF path = << >> THEN [ ok |-> FALSE, error |-> "ValueError" ]
    ELSE IF ContainsLiteral(path, << ";" >>)
         THEN [ ok |-> FALSE, error |-> "SQLInjectionError" ]
    ELSE IF ~MatchesPathClass(path)
         THEN [ ok |-> FALSE, error |-> "SQLInjectionError" ]
    ELSE [ ok |-> TRUE, value |-> path ]

\* sanitize_path: [ok, value] on success, [ok, error] on failure
sanitize_path(path) ==
    IF path = << >> THEN [ ok |-> FALSE, error |-> "ValueError" ]
    ELSE IF \/ ContainsLiteral(path, << ";" >>)
            \/ ContainsLiteral(path, << "-","-" >>)
            \/ ContainsLiteral(path, << "/","*" >>)
            \/ ContainsLiteral(path, << "*","/" >>)
         THEN [ ok |-> FALSE, error |-> "SQLInjectionError" ]
    ELSE IF ~MatchesPathClass(path)
         THEN [ ok |-> FALSE, error |-> "SQLInjectionError" ]
    ELSE [ ok |-> TRUE, value |-> path ]

\* ------------------------------------------------------------------------
\* parse_offset_to_seconds (utils.py)
\* ------------------------------------------------------------------------

\* str.endswith(suffix)
EndsWith(s, p) == Len(p) <= Len(s) /\ SubSeq(s, Len(s) - Len(p) + 1, Len(s)) = p

\* int() of a run of decimal digits
RECURSIVE DigitsToNat(_)
DigitsToNat(ds) ==
    IF ds = << >> THEN 0
    ELSE 10 * DigitsToNat(SubSeq(ds, 1, Len(ds) - 1))
           + (CHOOSE i \in DOMAIN DigitChars : DigitChars[i] = ds[Len(ds)]) - 1

\* how many leading characters of s lie in cs: what a greedy \d+ or \s*
\* consumes
RECURSIVE PrefixLen(_, _)
PrefixLen(s, cs) ==
    IF s # << >> /\ Head(s) \in cs THEN 1 + PrefixLen(Tail(s), cs) ELSE 0

\* the multipliers dict of parse_offset_to_seconds
multipliers ==
    << << << "s","e","c","o","n","d" >>, 1 >>,
       << << "m","i","n","u","t","e" >>, 60 >>,
       << << "h","o","u","r" >>, 3600 >>,
       << << "d","a","y" >>, 86400 >>,
       << << "w","e","e","k" >>, 604800 >> >>

\* offset.lower().strip() with one trailing " ago" removed and stripped again
offset_lower(offset) ==
    LET lowered == Strip(Lower(offset), Whitespace)
    IN  IF EndsWith(lowered, << " ","a","g","o" >>)
        THEN Strip(SubSeq(lowered, 1, Len(lowered) - 4), Whitespace)
        ELSE lowered

\* the parser with a pattern that wants whitespace between amount and unit
parse_offset_to_seconds_SpaceRequired(offset) ==
    LET text   == offset_lower(offset)
        nd     == PrefixLen(text, Range(DigitChars))
        rest   == SubSeq(text, nd + 1, Len(text))
        ns     == PrefixLen(rest, Whitespace)
        word   == SubSeq(rest, ns + 1, Len(rest))
        units  == { i \in DOMAIN multipliers :
                      word = multipliers[i][1] \/ word = multipliers[i][1] \o << "s" >> }
    IN  IF nd = 0 \/ ns = 0 \/ units = {}
        THEN [ ok |-> FALSE, error |-> "ValueError", message |-> "Invalid offset format" ]
        ELSE [ ok    |-> TRUE,
               value |-> DigitsToNat(SubSeq(text, 1, nd))
                           * multipliers[CHOOSE i \in units : TRUE][2] ]

\* the parser telling a bad amount from a bad unit
parse_offset_to_seconds_TwoErrors(offset) ==
    LET text   == offset_lower(offset)
        nd     == PrefixLen(text, Range(DigitChars))
        rest   == SubSeq(text, nd + 1, Len(text))
        ns     == PrefixLen(rest, Whitespace)
        word   == SubSeq(rest, ns + 1, Len(rest))
        units  == { i \in DOMAIN multipliers :
                      word = multipliers[i][1] \/ word = multipliers[i][1] \o << "s" >> }
    IN  IF nd = 0
        THEN [ ok |-> FALSE, error |-> "ValueError", message |-> "Invalid numeric value" ]
        ELSE IF units = {}
        THEN [ ok |-> FALSE, error |-> "ValueError", message |-> "Unknown time unit" ]
        ELSE [ ok    |-> TRUE,
               value |-> DigitsToNat(SubSeq(text, 1, nd))
                           * multipliers[CHOOSE i \in units : TRUE][2] ]

\* parse_offset_to_seconds: re.match(r"(\d+)\s*(second|minute|hour|day|week)s?$")
\* on the prepared text, then int(amount) * multipliers[unit]
parse_offset_to_seconds(offset) ==
    LET text   == offset_lower(offset)
        nd     == PrefixLen(text, Range(DigitChars))
        rest   == SubSeq(text, nd + 1, Len(text))
        ns     == PrefixLen(rest, Whitespace)
        word   == SubSeq(rest, ns + 1, Len(rest))
        units  == { i \in DOMAIN multipliers :
                      word = multipliers[i][1] \/ word = multipliers[i][1] \o << "s" >> }
    IN  IF nd = 0 \/ units = {}
        THEN [ ok |-> FALSE, error |-> "ValueError", message |-> "Invalid offset format" ]
        ELSE [ ok    |-> TRUE,
               value |-> DigitsToNat(SubSeq(text, 1, nd))
                           * multipliers[CHOOSE i \in units : TRUE][2] ]

\* ------------------------------------------------------------------------
\* Optional arguments: None is the empty sequence, a given value v is << v >>
\* ------------------------------------------------------------------------

None == << >>

Some(v) == << v >>

\* ------------------------------------------------------------------------
\* ColumnInfo and schema comparison (differ.py)
\* ------------------------------------------------------------------------

\* the mappings dict of _normalize_type, in insertion order
TypeMappings ==
    << << << "I","N","T" >>,                 << "I","N","T","E","G","E","R" >> >>,
       << << "I","N","T","4" >>,             << "I","N","T","E","G","E","R" >> >>,
       << << "I","N","T","8" >>,             << "B","I","G","I","N","T" >> >>,
       << << "F","L","O","A","T","8" >>,     << "D","O","U","B","L","E" >> >>,
       << << "F","L","O","A","T","4" >>,     << "F","L","O","A","T" >> >>,
       << << "B","O","O","L" >>,             << "B","O","O","L","E","A","N" >> >>,
       << << "S","T","R","I","N","G" >>,     << "V","A","R","C","H","A","R" >> >>,
       << << "T","E","X","T" >>,             << "V","A","R","C","H","A","R" >> >> >>

\* ColumnInfo._normalize_type: the first mapping whose pattern is a prefix of
\* the upper-cased type wins, otherwise the text before the first "("
_normalize_type(dtype) ==
    LET up   == Upper(dtype)
        hits == { i \in DOMAIN TypeMappings : StartsWith(up, TypeMappings[i][1]) }
    IN  IF hits # {}
        THEN TypeMappings[CHOOSE i \in hits : \A j \in hits : i <= j][2]
        ELSE Split(up, "(")[1]

\* ColumnInfo.type_matches
type_matches(col, other) ==
    _normalize_type(col.data_type) = _normalize_type(other.data_type)

\* lower-cased column names of a schema (keys of the source_names dict)
LowerNames(cols) == { Lower(cols[i].name) : i \in DOMAIN cols }

\* the ColumnInfo a {name.lower(): column} dict holds for a lower-cased name:
\* the last column of that name
ColumnNamed(cols, lname) ==
    cols[CHOOSE i \in DOMAIN cols :
            /\ Lower(cols[i].name) = lname
            /\ \A j \in DOMAIN cols : Lower(cols[j].name) = lname => j <= i]

\* keys of a {name.lower(): column} dict in insertion order, each with the
\* value the dict ends up holding
DictItems(cols) ==
    LET firsts == SelectSeq([ i \in DOMAIN cols |-> i ],
                            LAMBDA i : \A j \in 1 .. (i - 1) :
                                           Lower(cols[j].name) # Lower(cols[i].name))
    IN  [ k \in DOMAIN firsts |-> ColumnNamed(cols, Lower(cols[firsts[k]].name)) ]

Names(cols) == [ i \in DOMAIN cols |-> cols[i].name ]

\* compare_schemas looking target names up among the source names as written
SchemaComparison_ExactNames(source_cols, target_cols) ==
    LET src == DictItems(source_cols)
        tgt == DictItems(target_cols)
        inTarget(c) == Lower(c.name) \in LowerNames(target_cols)
        inSource(c) == c.name \in { source_cols[i].name : i \in DOMAIN source_cols }
        both == SelectSeq(src, inTarget)
    IN  [ source_columns      |-> source_cols,
          target_columns      |-> target_cols,
          matching_columns    |-> Names(both),
          source_only_columns |-> Names(SelectSeq(src, LAMBDA c : ~inTarget(c))),
          target_only_columns |-> Names(SelectSeq(tgt, LAMBDA c : ~inSource(c))),
          type_mismatches     |->
              { << both[i].name, both[i].data_type,
                   ColumnNamed(target_cols, Lower(both[i].name)).data_type >> :
                  i \in { k \in DOMAIN both :
                            ~type_matches(both[k],
                                ColumnNamed(target_cols, Lower(both[k].name))) } } ]

\* the part of compare_schemas that follows the two get_schema calls
SchemaComparison(source_cols, target_cols) ==
    LET src == DictItems(source_cols)
        tgt == DictItems(target_cols)
        inTarget(c) == Lower(c.name) \in LowerNames(target_cols)
        inSource(c) == Lower(c.name) \in LowerNames(source_cols)
        both == SelectSeq(src, inTarget)
    IN  [ source_columns      |-> source_cols,
          target_columns      |-> target_cols,
          matching_columns    |-> Names(both),
          source_only_columns |-> Names(SelectSeq(src, LAMBDA c : ~inTarget(c))),
          target_only_columns |-> Names(SelectSeq(tgt, LAMBDA c : ~inSource(c))),
          type_mismatches     |->
              { << both[i].name, both[i].data_type,
                   ColumnNamed(target_cols, Lower(both[i].name)).data_type >> :
                  i \in { k \in DOMAIN both :
                            ~type_matches(both[k],
                                ColumnNamed(target_cols, Lower(both[k].name))) } } ]

\* the key gate left out: every key is let through
_validate_key_column_Accepting(key_column, schema_result) == [ ok |-> TRUE ]

\* the key gate looking at the target schema before the source schema
_validate_key_column_TargetFirst(key_column, schema_result) ==
    LET key_lower == Lower(key_column)
    IN  IF key_lower \notin LowerNames(schema_result.target_columns)
        THEN [ ok |-> FALSE,
               error |-> [ type |-> "KeyColumnError", reason |-> "missing_in_target",
                           available |-> Names(schema_result.target_columns) ] ]
        ELSE IF key_lower \notin LowerNames(schema_result.source_columns)
        THEN [ ok |-> FALSE,
               error |-> [ type |-> "KeyColumnError", reason |-> "missing_in_source",
                           available |-> Names(schema_result.source_columns) ] ]
        ELSE IF ~type_matches(ColumnNamed(schema_result.source_columns, key_lower),
                              ColumnNamed(schema_result.target_columns, key_lower))
        THEN [ ok |-> FALSE,
               error |-> [ type |-> "KeyColumnError", reason |-> "incompatible_types" ] ]
        ELSE [ ok |-> TRUE ]

\* _validate_key_column: "ok" or the KeyColumnError it raises
_validate_key_column(key_column, schema_result) ==
    LET key_lower == Lower(key_column)
    IN  IF key_lower \notin LowerNames(schema_result.source_columns)
        THEN [ ok |-> FALSE,
               error |-> [ type |-> "KeyColumnError", reason |-> "missing_in_source",
                           available |-> Names(schema_result.source_columns) ] ]
        ELSE IF key_lower \notin LowerNames(schema_result.target_columns)
        THEN [ ok |-> FALSE,
               error |-> [ type |-> "KeyColumnError", reason |-> "missing_in_target",
                           available |-> Names(schema_result.target_columns) ] ]
        ELSE IF ~type_matches(ColumnNamed(schema_result.source_columns, key_lower),
                              ColumnNamed(schema_result.target_columns, key_lower))
        THEN [ ok |-> FALSE,
               error |-> [ type |-> "KeyColumnError", reason |-> "incompatible_types" ] ]
        ELSE [ ok |-> TRUE ]

\* the caller's columns looked up in matching_columns as written
ResolveColumns_CaseSensitive(columns, schema_result) ==
    IF columns = None
    THEN schema_result.matching_columns
    ELSE SelectSeq(columns[1], LAMBDA c : c \in Range(schema_result.matching_columns))

\* column resolution of diff: the columns to compare, << >> when none is left
ResolveColumns(columns, schema_result) ==
    IF columns = None
    THEN schema_result.matching_columns
    ELSE LET available == { Lower(c) : c \in Range(schema_result.matching_columns) }
         IN  SelectSeq(columns[1], LAMBDA c : Lower(c) \in available)

\* "if key_column not in columns: columns = [key_column] + columns"
EnsureKey(key_column, columns) ==
    IF key_column \in Range(columns) THEN columns ELSE << key_column >> \o columns

\* ------------------------------------------------------------------------
\* Cell values and the row hash
\* ------------------------------------------------------------------------

NULL == [ null |-> TRUE ]

IntV(n) == [ int |-> n ]

StrV(s) == [ str |-> s ]

IsNull(v) == "null" \in DOMAIN v

IsInt(v) == "int" \in DOMAIN v

\* decimal text of an integer
RECURSIVE NatToText(_)
NatToText(n) ==
    IF n < 10 THEN DigitChars[n + 1]
    ELSE NatToText(n \div 10) \o DigitChars[(n % 10) + 1]

IntToText(n) == IF n < 0 THEN "-" \o NatToText(0 - n) ELSE NatToText(n)

\* CAST(expr AS VARCHAR): NULL stays NULL
cast_to_varchar(v) ==
    IF IsNull(v) THEN NULL
    ELSE IF IsInt(v) THEN StrV(IntToText(v.int))
    ELSE v

\* COALESCE(expr, '<sentinel>'), on text
coalesce_null(v, sentinel) == IF IsNull(v) THEN sentinel ELSE v.str

\* CONCAT_WS('<separator>', e1, ..., en), on texts none of which is NULL
RECURSIVE concat_with_separator(_, _)
concat_with_separator(texts, separator) ==
    IF texts = << >> THEN ""
    ELSE IF Len(texts) = 1 THEN texts[1]
    ELSE texts[1] \o separator \o concat_with_separator(Tail(texts), separator)

\* MD5(expr), idealised as a collision-free function of its input text
md5_hash(text) == [ md5 |-> text ]

\* QueryBuilder.null_sentinel and QueryBuilder.column_delimiter
null_sentinel == "<NULL>"

column_delimiter == "|#|"

\* the text the row hash expression feeds to MD5 for one row
HashInput(values) ==
    concat_with_separator(
        [ i \in DOMAIN values |-> coalesce_null(cast_to_varchar(values[i]), null_sentinel) ],
        column_delimiter)

\* adapter.row_hash_expression evaluated on the values of the hashed columns
row_hash_expression(values) == md5_hash(HashInput(values))

\* ------------------------------------------------------------------------
\* QueryBuilder (query_builder.py).  A statement records what the SQL text
\* embeds: its kind, the table references, the key, the hashed columns and
\* the trailing LIMIT.
\* ------------------------------------------------------------------------

Statement(kind, tables, key, columns) ==
    [ kind |-> kind, tables |-> tables, key |-> key, columns |-> columns, limit |-> None ]

\* every identifier the text of a statement embeds
Identifiers(stmt) == Range(stmt.tables) \cup Range(stmt.key) \cup Range(stmt.columns)

\* the error of the first identifier, in order, that sanitize_identifier rejects
FirstRejection(identifiers) ==
    LET bad == { i \in DOMAIN identifiers : ~sanitize_identifier(identifiers[i]).ok }
    IN  sanitize_identifier(identifiers[CHOOSE i \in bad : \A j \in bad : i <= j]).error

AllAccepted(identifiers) ==
    \A i \in DOMAIN identifiers : sanitize_identifier(identifiers[i]).ok

Sanitized(identifiers) ==
    [ i \in DOMAIN identifiers |-> sanitize_identifier(identifiers[i]).value ]

\* a build_* method: the statement built from the sanitized identifiers, or
\* the error of the first rejected identifier (tables, then key, then columns)
Build(kind, tables, key, columns) ==
    IF AllAccepted(tables \o key \o columns)
    THEN [ ok |-> TRUE,
           query |-> Statement(kind, Sanitized(tables), Sanitized(key), Sanitized(columns)) ]
    ELSE [ ok |-> FALSE, error |-> [ type |-> FirstRejection(tables \o key \o columns) ] ]

build_schema_query(table) == Build("schema", << table >>, << >>, << >>)

\* the count query built from the table name as given
build_count_query_Raw(table) ==
    [ ok |-> TRUE, query |-> Statement("count", << table >>, << >>, << >>) ]

build_count_query(table) == Build("count", << table >>, << >>, << >>)

build_distinct_count_query(table, key_column) ==
    Build("distinct_count", << table >>, << key_column >>, << >>)

build_aggregate_hash_query(table, columns, key_column) ==
    Build("aggregate_hash", << table >>, << key_column >>, columns)

build_hash_comparison_query(source_table, target_table, columns, key_column) ==
    Build("hash_comparison", << source_table, target_table >>, << key_column >>, columns)

\* validate_limit (sql_utils.py), for an integer or None
validate_limit(limit) ==
    IF limit = None THEN [ ok |-> TRUE, value |-> None ]
    ELSE IF limit[1] <= 0 THEN [ ok |-> FALSE, error |-> [ type |-> "ValueError" ] ]
    ELSE [ ok |-> TRUE, value |-> limit ]

\* ------------------------------------------------------------------------
\* The execution backend: what the generated SQL computes on a database.
\* A database maps lower-cased table names to [columns, rows]; a row is the
\* tuple of its cell values in column order.
\* ------------------------------------------------------------------------

\* identifiers are case-insensitive in the backend; double quotes delimit
Unquoted(identifier) == Lower(Strip(identifier, { "\"" }))

TableExists(database, table_ref) == Unquoted(table_ref) \in DOMAIN database

TableOf(database, table_ref) == database[Unquoted(table_ref)]

HasColumn(table, column) == Unquoted(column) \in LowerNames(table.columns)

ColumnIndex(table, column) ==
    CHOOSE i \in DOMAIN table.columns : Lower(table.columns[i].name) = Unquoted(column)

Cell(table, r, column) == table.rows[r][ColumnIndex(table, column)]

\* the row hash taken over the first listed column alone
RowHashOf_FirstColumn(table, r, columns) ==
    row_hash_expression(<< Cell(table, r, columns[1]) >>)

\* the row_hash column of source_hashes / target_hashes for row r
RowHashOf(table, r, columns) ==
    row_hash_expression([ k \in DOMAIN columns |-> Cell(table, r, columns[k]) ])

\* "a = b" of SQL as a join condition: never satisfied by a NULL
SqlEquals(a, b) == ~IsNull(a) /\ ~IsNull(b) /\ a = b

\* "a <> b" in place of IS DISTINCT FROM: not satisfied when a side is NULL
IsDistinctFrom_NotEqual(a, b) == ~IsNull(a) /\ ~IsNull(b) /\ a # b

\* "a IS DISTINCT FROM b"
IsDistinctFrom(a, b) == a # b

\* texts in ascending collation order, for ORDER BY on a text key
Collation == << "", "a", "b" >>

\* ORDER BY ... ASC: integers by value, texts by collation, NULLs last
SortsBefore(a, b) ==
    IF IsNull(a) THEN FALSE
    ELSE IF IsNull(b) THEN TRUE
    ELSE IF IsInt(a) /\ IsInt(b) THEN a.int < b.int
    ELSE IF IsInt(a) \/ IsInt(b) THEN IsInt(a)
    ELSE (CHOOSE i \in DOMAIN Collation : Collation[i] = a.str)
           < (CHOOSE i \in DOMAIN Collation : Collation[i] = b.str)

\* FULL OUTER JOIN ... ON s.key = t.key, as pairs of row numbers; 0 stands
\* for the all-NULL row of an unmatched side
FullOuterJoin(source, target, key) ==
    LET matched == { p \in (DOMAIN source.rows) \X (DOMAIN target.rows) :
                       SqlEquals(Cell(source, p[1], key), Cell(target, p[2], key)) }
    IN  matched
          \cup { << i, 0 >> : i \in { k \in DOMAIN source.rows :
                                        \A p \in matched : p[1] # k } }
          \cup { << 0, j >> : j \in { k \in DOMAIN target.rows :
                                        \A p \in matched : p[2] # k } }

\* the CASE with its first two branches exchanged
ComparisonRow_Swapped(source, target, key, columns, p) ==
    LET skey == IF p[1] = 0 THEN NULL ELSE Cell(source, p[1], key)
        tkey == IF p[2] = 0 THEN NULL ELSE Cell(target, p[2], key)
    IN  [ key         |-> IF IsNull(skey) THEN tkey ELSE skey,
          diff_type   |-> IF IsNull(skey) THEN "removed"
                          ELSE IF IsNull(tkey) THEN "added"
                          ELSE "modified",
          source_hash |-> IF p[1] = 0 THEN NULL ELSE RowHashOf(source, p[1], columns),
          target_hash |-> IF p[2] = 0 THEN NULL ELSE RowHashOf(target, p[2], columns) ]

\* the output row of the hash-comparison SELECT for one joined pair
ComparisonRow(source, target, key, columns, p) ==
    LET skey == IF p[1] = 0 THEN NULL ELSE Cell(source, p[1], key)
        tkey == IF p[2] = 0 THEN NULL ELSE Cell(target, p[2], key)
    IN  [ key         |-> IF IsNull(skey) THEN tkey ELSE skey,
          diff_type   |-> IF IsNull(skey) THEN "added"
                          ELSE IF IsNull(tkey) THEN "removed"
                          ELSE "modified",
          source_hash |-> IF p[1] = 0 THEN NULL ELSE RowHashOf(source, p[1], columns),
          target_hash |-> IF p[2] = 0 THEN NULL ELSE RowHashOf(target, p[2], columns) ]

\* the query without its WHERE clause
ComparisonFilter_Absent(row) == TRUE

\* WHERE s.row_hash IS DISTINCT FROM t.row_hash
ComparisonFilter(row) == IsDistinctFrom(row.source_hash, row.target_hash)

\* the joined pairs that survive the WHERE clause
DifferingPairs(source, target, key, columns) ==
    { p \in FullOuterJoin(source, target, key) :
        ComparisonFilter(ComparisonRow(source, target, key, columns, p)) }

\* the rows items[x] as a bag: how many times each row occurs
RowBag(items) ==
    [ v \in { items[x] : x \in DOMAIN items } |->
        Cardinality({ x \in DOMAIN items : items[x] = v }) ]

\* the rows of a bag in any order: the query without its ORDER BY
RECURSIVE Orderings_Unsorted(_)
Orderings_Unsorted(bag) ==
    LET left == { v \in DOMAIN bag : bag[v] > 0 }
    IN  IF left = {} THEN { << >> }
        ELSE UNION { { << m >> \o rest :
                         rest \in Orderings_Unsorted([ bag EXCEPT ![m] = @ - 1 ]) } :
                       m \in left }

\* every sequence that lists the rows of a bag, each as often as it occurs,
\* ascending by the field "key"; rows with equal keys may come in any order
RECURSIVE Orderings(_)
Orderings(bag) ==
    LET left == { v \in DOMAIN bag : bag[v] > 0 }
    IN  IF left = {} THEN { << >> }
        ELSE UNION { { << m >> \o rest : rest \in Orderings([ bag EXCEPT ![m] = @ - 1 ]) } :
                       m \in { x \in left : \A y \in left : ~SortsBefore(y.key, x.key) } }

\* LIMIT n on an ordered result
Limited(rows, limit) ==
    IF limit = None \/ limit[1] >= Len(rows) THEN rows ELSE SubSeq(rows, 1, limit[1])

\* the possible results of the hash-comparison query
HashComparisonResults(source, target, stmt) ==
    LET key     == stmt.key[1]
        out(p)  == ComparisonRow(source, target, key, stmt.columns, p)
        pairs   == DifferingPairs(source, target, key, stmt.columns)
    IN  { Limited(o, stmt.limit) : o \in Orderings(RowBag([ p \in pairs |-> out(p) ])) }

\* the possible results of MD5(STRING_AGG(row_hash, '' ORDER BY key)): NULL
\* for an empty table
AggregateHashResults(table, stmt) ==
    LET hashed(r) == [ key      |-> Cell(table, r, stmt.key[1]),
                       row_hash |-> RowHashOf(table, r, stmt.columns) ]
    IN  IF table.rows = << >> THEN { NULL }
        ELSE { md5_hash([ i \in DOMAIN o |-> o[i].row_hash ]) :
                 o \in Orderings(RowBag([ r \in DOMAIN table.rows |-> hashed(r) ])) }

\* COUNT(*)
CountRows(table) == Len(table.rows)

\* COUNT(DISTINCT key): NULLs are not counted
CountDistinct(table, key) ==
    Cardinality({ Cell(table, r, key) : r \in DOMAIN table.rows } \ { NULL })

\* the columns a statement reads all exist in the tables it reads
ColumnsBound(database, stmt) ==
    \A t \in Range(stmt.tables) :
        \A c \in Range(stmt.key) \cup Range(stmt.columns) :
            HasColumn(TableOf(database, t), c)

\* connector.execute on a statement: the set of possible outcomes.  "faults"
\* says whether the backend may fail for reasons of its own.
Execute(database, stmt, faults) ==
    LET fault == IF faults THEN { [ ok |-> FALSE, error |-> "QueryExecutionError" ] } ELSE {}
    IN  IF \E t \in Range(stmt.tables) : ~TableExists(database, t)
        THEN { [ ok |-> FALSE, error |-> "TableNotFoundError" ] } \cup fault
        ELSE IF ~ColumnsBound(database, stmt)
        THEN { [ ok |-> FALSE, error |-> "QueryExecutionError" ] }
        ELSE fault \cup
             { [ ok |-> TRUE, rows |-> r ] : r \in
                 CASE stmt.kind = "schema" ->
                        { TableOf(database, stmt.tables[1]).columns }
                   [] stmt.kind = "count" ->
                        { CountRows(TableOf(database, stmt.tables[1])) }
                   [] stmt.kind = "distinct_count" ->
                        { CountDistinct(TableOf(database, stmt.tables[1]), stmt.key[1]) }
                   [] stmt.kind = "aggregate_hash" ->
                        AggregateHashResults(TableOf(database, stmt.tables[1]), stmt)
                   [] stmt.kind = "hash_comparison" ->
                        HashComparisonResults(TableOf(database, stmt.tables[1]),
                                              TableOf(database, stmt.tables[2]), stmt) }

\* ------------------------------------------------------------------------
\* Result types of differ.py
\* ------------------------------------------------------------------------

\* DiffType(value): the enum member whose value is the given string
DiffType(value) ==
    CASE value = "added"    -> "ADDED"
      [] value = "removed"  -> "REMOVED"
      [] value = "modified" -> "MODIFIED"

\* the RowDiff built from one row of the hash-comparison result
RowDiff(row) ==
    [ key         |-> row.key,
      diff_type   |-> DiffType(row.diff_type),
      source_hash |-> row.source_hash,
      target_hash |-> row.target_hash ]

\* a ratio num/den, for the float fields threshold and diff_percentage
Ratio(num, den) == [ num |-> num, den |-> den ]

RatioEq(a, b) == a.num * b.den = b.num * a.den

RatioLeq(a, b) == a.num * b.den <= b.num * a.den

Max(a, b) == IF a >= b THEN a ELSE b

CountOf(differences, diff_type) ==
    Cardinality({ i \in DOMAIN differences : differences[i].diff_type = diff_type })

\* the properties of DiffResult
total_differences(r) == Len(r.differences)

added_count(r) == CountOf(r.differences, "ADDED")

removed_count(r) == CountOf(r.differences, "REMOVED")

modified_count(r) == CountOf(r.differences, "MODIFIED")

\* the percentage taken of the source rows alone
diff_percentage_OfSource(r) ==
    IF r.source_row_count = 0 THEN Ratio(0, 1)
    ELSE Ratio(total_differences(r) * 100, r.source_row_count)

diff_percentage(r) ==
    LET total == Max(r.source_row_count, r.target_row_count)
    IN  IF total = 0 THEN Ratio(0, 1)
        ELSE Ratio(total_differences(r) * 100, total)

is_within_threshold(r) ==
    RatioLeq(Ratio(diff_percentage(r).num, diff_percentage(r).den * 100), r.threshold)

is_match(r) == total_differences(r) = 0

\* is_match with any() in place of all()
CountsMatch_Any(table_counts) ==
    \E i \in DOMAIN table_counts : table_counts[i].count = table_counts[1].count

\* the tail of count_check: is_match of the collected table counts
CountsMatch(table_counts) ==
    \A i \in DOMAIN table_counts : table_counts[i].count = table_counts[1].count

\* ------------------------------------------------------------------------
\* State
\* ------------------------------------------------------------------------

VARIABLES
    db,      \* the tables of the backend the connector is attached to
    pc,      \* position of the running DataDiffer call; "idle" / "done" otherwise
    args,    \* the arguments of the running (or last) call
    issued,  \* the statements handed to connector.execute during that call
    frame,   \* the local variables of the call
    result   \* what the call returned or raised

vars == << db, pc, args, issued, frame, result >>

NoArgs ==
    [ op |-> "none", source_table |-> << >>, target_table |-> << >>,
      key_column |-> None, columns |-> None, limit |-> None,
      threshold |-> Ratio(0, 1), tables |-> << >> ]

EmptyFrame ==
    [ source_cols |-> << >>, schema_result |-> None, columns |-> << >>,
      source_count |-> 0, target_count |-> 0, table_counts |-> << >>,
      target_query |-> None, source_hash |-> None ]

Pending == [ status |-> "none" ]

Returned(value) == [ status |-> "returned", value |-> value ]

Raised(error) == [ status |-> "raised", error |-> error ]

\* an exception with the table it names, if any
Error(type, table) == [ type |-> type, table |-> table ]

\* what a helper that runs at most one statement did: the statements it
\* issued and the value it returned or the error it raised
Outcome(stmts, ok, value, error) ==
    [ issued |-> stmts, ok |-> ok, value |-> value, error |-> error ]

\* get_schema handing the text to the backend before the sanitizer's verdict
get_schema_ExecutesFirst(database, table, faults) ==
    LET query == build_schema_query(table)
    IN  IF ~query.ok
        THEN { Outcome(<< Statement("schema", << table >>, << >>, << >>) >>,
                       FALSE, << >>, Error(query.error.type, None)) }
        ELSE { Outcome(<< query.query >>,
                       o.ok /\ o.rows # << >>,
                       IF o.ok THEN o.rows ELSE << >>,
                       IF ~o.ok /\ o.error = "TableNotFoundError"
                       THEN Error("TableNotFoundError", Some(table))
                       ELSE Error("SchemaError", Some(table))) :
                 o \in Execute(database, query.query, faults) }

\* get_schema reporting the sanitized name, as the connector's own
\* get_table_schema does
get_schema_SanitizedName(database, table, faults) ==
    LET query == build_schema_query(table)
    IN  IF ~query.ok
        THEN { Outcome(<< >>, FALSE, << >>, Error(query.error.type, None)) }
        ELSE { Outcome(<< query.query >>,
                       o.ok /\ o.rows # << >>,
                       IF o.ok THEN o.rows ELSE << >>,
                       IF ~o.ok /\ o.error = "TableNotFoundError"
                       THEN Error("TableNotFoundError", Some(sanitize_identifier(table).value))
                       ELSE Error("SchemaError", Some(table))) :
                 o \in Execute(database, query.query, faults) }

\* DataDiffer.get_schema
get_schema(database, table, faults) ==
    LET query == build_schema_query(table)
    IN  IF ~query.ok
        THEN { Outcome(<< >>, FALSE, << >>, Error(query.error.type, None)) }
        ELSE { Outcome(<< query.query >>,
                       o.ok /\ o.rows # << >>,
                       IF o.ok THEN o.rows ELSE << >>,
                       IF ~o.ok /\ o.error = "TableNotFoundError"
                       THEN Error("TableNotFoundError", Some(table))
                       ELSE Error("SchemaError", Some(table))) :
                 o \in Execute(database, query.query, faults) }

\* get_row_count running its query a second time when the first run fails
get_row_count_Retried(database, table, faults) ==
    LET query == build_count_query(table)
    IN  IF ~query.ok
        THEN { Outcome(<< >>, FALSE, 0, Error(query.error.type, None)) }
        ELSE { Outcome(IF o.ok THEN << query.query >> ELSE << query.query, query.query >>,
                       o.ok,
                       IF o.ok THEN o.rows ELSE 0,
                       IF ~o.ok /\ o.error = "TableNotFoundError"
                       THEN Error("TableNotFoundError", Some(table))
                       ELSE Error("QueryExecutionError", None)) :
                 o \in Execute(database, query.query, faults) }

\* DataDiffer.get_row_count
get_row_count(database, table, faults) ==
    LET query == build_count_query(table)
    IN  IF ~query.ok
        THEN { Outcome(<< >>, FALSE, 0, Error(query.error.type, None)) }
        ELSE { Outcome(<< query.query >>,
                       o.ok,
                       IF o.ok THEN o.rows ELSE 0,
                       IF ~o.ok /\ o.error = "TableNotFoundError"
                       THEN Error("TableNotFoundError", Some(table))
                       ELSE Error("QueryExecutionError", None)) :
                 o \in Execute(database, query.query, faults) }

\* ------------------------------------------------------------------------
\* The calls of DataDiffer, one action per statement round trip: build the
\* next statement, hand it to the backend, run the code that follows up to
\* the next statement or to the end of the call.
\* ------------------------------------------------------------------------

Begin(a, first) ==
    /\ pc = "idle"
    /\ args' = a
    /\ issued' = << >>
    /\ frame' = EmptyFrame
    /\ result' = Pending
    /\ pc' = first
    /\ UNCHANGED db

Finish(r) ==
    /\ pc' = "done"
    /\ result' = r

\* DataDiffer.diff is called
diff(A) == \E a \in A : a.op = "diff" /\ Begin(a, "schema_source")

\* DataDiffer.quick_check is called
quick_check(A) == \E a \in A : a.op = "quick_check" /\ Begin(a, "schema_source")

\* DataDiffer.compare_schemas is called
compare_schemas(A) == \E a \in A : a.op = "compare_schemas" /\ Begin(a, "schema_source")

\* DataDiffer.get_schema(table) is called
get_schema_call(A) == \E a \in A : a.op = "get_schema" /\ Begin(a, "schema_source")

\* DataDiffer.get_row_count(table) is called
get_row_count_call(A) == \E a \in A : a.op = "get_row_count" /\ Begin(a, "count_source")

\* DataDiffer.count_check is called; an empty list returns at once
count_check(A) ==
    \E a \in A :
        /\ a.op = "count_check"
        /\ pc = "idle"
        /\ args' = a
        /\ issued' = << >>
        /\ frame' = EmptyFrame
        /\ IF a.tables = << >>
           THEN Finish(Returned([ table_counts |-> << >>, key_column |-> a.key_column,
                                  is_match |-> TRUE ]))
           ELSE pc' = "count_check" /\ result' = Pending
        /\ UNCHANGED db

\* get_schema(source_table): all of get_schema, the first half of compare_schemas
SchemaSource(faults) ==
    /\ pc = "schema_source"
    /\ \E o \in get_schema(db, args.source_table, faults) :
        /\ issued' = issued \o o.issued
        /\ IF ~o.ok
           THEN Finish(Raised(o.error)) /\ UNCHANGED frame
           ELSE IF args.op = "get_schema"
           THEN Finish(Returned(o.value)) /\ UNCHANGED frame
           ELSE /\ pc' = "schema_target"
                /\ frame' = [ frame EXCEPT !.source_cols = o.value ]
                /\ UNCHANGED result
    /\ UNCHANGED << db, args >>

\* quick_check hashing the key column alone
QuickCheckColumns_KeyOnly(key_column, columns, schema_result) == << key_column >>

\* the columns quick_check hashes
QuickCheckColumns(key_column, columns, schema_result) ==
    EnsureKey(key_column,
              IF columns = None THEN schema_result.matching_columns ELSE columns[1])

\* get_schema(target_table), the rest of compare_schemas, and for diff and
\* quick_check the key validation and column resolution that follow it
SchemaTarget(faults) ==
    /\ pc = "schema_target"
    /\ \E o \in get_schema(db, args.target_table, faults) :
        LET schema_result == SchemaComparison(frame.source_cols, o.value)
            key_column    == args.key_column[1]
            valid         == _validate_key_column(key_column, schema_result)
            columns       == ResolveColumns(args.columns, schema_result)
        IN  /\ issued' = issued \o o.issued
            /\ IF ~o.ok
               THEN Finish(Raised(o.error)) /\ UNCHANGED frame
               ELSE IF args.op = "compare_schemas"
               THEN Finish(Returned(schema_result)) /\ UNCHANGED frame
               ELSE IF ~valid.ok
               THEN Finish(Raised(valid.error)) /\ UNCHANGED frame
               ELSE IF args.op = "quick_check"
               THEN /\ pc' = "aggregate_source"
                    /\ frame' = [ frame EXCEPT
                                    !.schema_result = Some(schema_result),
                                    !.columns = QuickCheckColumns(key_column, args.columns,
                                                                  schema_result) ]
                    /\ UNCHANGED result
               ELSE IF columns = << >>
               THEN Finish(Raised(Error("SchemaError", None))) /\ UNCHANGED frame
               ELSE /\ pc' = "count_source"
                    /\ frame' = [ frame EXCEPT
                                    !.schema_result = Some(schema_result),
                                    !.columns = EnsureKey(key_column, columns) ]
                    /\ UNCHANGED result
    /\ UNCHANGED << db, args >>

\* get_row_count(source_table): all of get_row_count, step 2 of diff
CountSource(faults) ==
    /\ pc = "count_source"
    /\ \E o \in get_row_count(db, args.source_table, faults) :
        /\ issued' = issued \o o.issued
        /\ IF ~o.ok
           THEN Finish(Raised(o.error)) /\ UNCHANGED frame
           ELSE IF args.op = "get_row_count"
           THEN Finish(Returned(o.value)) /\ UNCHANGED frame
           ELSE /\ pc' = "count_target"
                /\ frame' = [ frame EXCEPT !.source_count = o.value ]
                /\ UNCHANGED result
    /\ UNCHANGED << db, args >>

\* get_row_count(target_table) of diff
CountTarget(faults) ==
    /\ pc = "count_target"
    /\ \E o \in get_row_count(db, args.target_table, faults) :
        /\ issued' = issued \o o.issued
        /\ IF ~o.ok
           THEN Finish(Raised(o.error)) /\ UNCHANGED frame
           ELSE /\ pc' = "hash_comparison"
                /\ frame' = [ frame EXCEPT !.target_count = o.value ]
                /\ UNCHANGED result
    /\ UNCHANGED << db, args >>

\* the caller has taken what the call returned or raised; the locals are gone
Return ==
    /\ pc = "done"
    /\ pc' = "idle"
    /\ args' = NoArgs
    /\ issued' = << >>
    /\ frame' = EmptyFrame
    /\ result' = Pending
    /\ UNCHANGED db

\* "if limit:" of diff: the statement with its trailing LIMIT, or the
\* ValueError of validate_limit
WithLimit(query, limit) ==
    IF limit = None \/ limit[1] = 0
    THEN [ ok |-> TRUE, query |-> query ]
    ELSE IF ~validate_limit(limit).ok
    THEN [ ok |-> FALSE, error |-> validate_limit(limit).error ]
    ELSE [ ok |-> TRUE, query |-> [ query EXCEPT !.limit = validate_limit(limit).value ] ]

\* the DiffResult diff returns for the rows of the hash-comparison query
DiffResult(a, f, diff_rows) ==
    [ source_table     |-> a.source_table,
      target_table     |-> a.target_table,
      source_row_count |-> f.source_count,
      target_row_count |-> f.target_count,
      schema_comparison |-> f.schema_result[1],
      differences      |-> [ i \in DOMAIN diff_rows |-> RowDiff(diff_rows[i]) ],
      threshold        |-> a.threshold,
      columns_compared |-> f.columns,
      key_column       |-> a.key_column[1] ]

\* step 3 of diff: build the hash-comparison query, append the limit, run it
\* and parse the differences
HashComparison(faults) ==
    /\ pc = "hash_comparison"
    /\ LET built == build_hash_comparison_query(args.source_table, args.target_table,
                                                frame.columns, args.key_column[1])
           query == WithLimit(built.query, args.limit)
       IN  IF ~built.ok
           THEN Finish(Raised(Error(built.error.type, None))) /\ UNCHANGED issued
           ELSE IF ~query.ok
           THEN Finish(Raised(Error(query.error.type, None))) /\ UNCHANGED issued
           ELSE \E o \in Execute(db, query.query, faults) :
                   /\ issued' = Append(issued, query.query)
                   /\ IF o.ok
                      THEN Finish(Returned(DiffResult(args, frame, o.rows)))
                      ELSE Finish(Raised(Error(o.error, None)))
    /\ UNCHANGED << db, args, frame >>

\* quick_check: build both aggregate-hash queries, run the source one
AggregateSource(faults) ==
    /\ pc = "aggregate_source"
    /\ LET source_query == build_aggregate_hash_query(args.source_table, frame.columns,
                                                      args.key_column[1])
           target_query == build_aggregate_hash_query(args.target_table, frame.columns,
                                                      args.key_column[1])
       IN  IF ~source_query.ok
           THEN Finish(Raised(Error(source_query.error.type, None)))
                /\ UNCHANGED << issued, frame >>
           ELSE IF ~target_query.ok
           THEN Finish(Raised(Error(target_query.error.type, None)))
                /\ UNCHANGED << issued, frame >>
           ELSE \E o \in Execute(db, source_query.query, faults) :
                   /\ issued' = Append(issued, source_query.query)
                   /\ IF o.ok
                      THEN /\ pc' = "aggregate_target"
                           /\ frame' = [ frame EXCEPT
                                           !.target_query = Some(target_query.query),
                                           !.source_hash = Some(o.rows) ]
                           /\ UNCHANGED result
                      ELSE Finish(Raised(Error(o.error, None))) /\ UNCHANGED frame
    /\ UNCHANGED << db, args >>

\* quick_check: run the target aggregate-hash query and compare
AggregateTarget(faults) ==
    /\ pc = "aggregate_target"
    /\ \E o \in Execute(db, frame.target_query[1], faults) :
        /\ issued' = Append(issued, frame.target_query[1])
        /\ IF o.ok
           THEN Finish(Returned(frame.source_hash[1] = o.rows))
           ELSE Finish(Raised(Error(o.error, None)))
    /\ UNCHANGED << db, args, frame >>

\* "if key_column:" of count_check
Truthy(key_column) == key_column # None /\ key_column[1] # << >>

\* one iteration of the loop of count_check; after the last table, is_match
CountCheckTable(faults) ==
    /\ pc = "count_check"
    /\ LET table == args.tables[Len(frame.table_counts) + 1]
           query == IF Truthy(args.key_column)
                    THEN build_distinct_count_query(table, args.key_column[1])
                    ELSE build_count_query(table)
       IN  IF ~query.ok
           THEN Finish(Raised(Error(query.error.type, None)))
                /\ UNCHANGED << issued, frame >>
           ELSE \E o \in Execute(db, query.query, faults) :
                   LET table_counts ==
                           Append(frame.table_counts, [ table |-> table, count |-> o.rows ])
                   IN  /\ issued' = Append(issued, query.query)
                       /\ IF ~o.ok
                          THEN /\ Finish(Raised(IF o.error = "TableNotFoundError"
                                                THEN Error(o.error, Some(table))
                                                ELSE Error(o.error, None)))
                               /\ UNCHANGED frame
                          ELSE /\ frame' = [ frame EXCEPT !.table_counts = table_counts ]
                               /\ IF Len(table_counts) = Len(args.tables)
                                  THEN Finish(Returned(
                                           [ table_counts |-> table_counts,
                                             key_column   |-> args.key_column,
                                             is_match     |-> CountsMatch(table_counts) ]))
                                  ELSE UNCHANGED << pc, result >>
    /\ UNCHANGED << db, args >>

\* ------------------------------------------------------------------------
\* Inputs: names, schemas, tables, databases and call arguments
\* ------------------------------------------------------------------------

Name_src == << "s","r","c" >>

Name_tgt == << "t","g","t" >>

Name_t3 == << "t","3" >>

\* a table no database holds
Name_ghost == << "g","h","o","s","t" >>

\* "t;x": rejected by the sanitizer
Name_injection == << "t",";","x" >>

\* " src": accepted by the sanitizer, which strips the blank
Name_padded == << " ","s","r","c" >>

Name_id == << "i","d" >>

Name_ID == << "I","D" >>

Name_val == << "v","a","l" >>

Name_name == << "n","a","m","e" >>

Name_age == << "a","g","e" >>

Name_extra == << "e","x","t","r","a" >>

\* "my col": a column name a table can have and the sanitizer rejects
Name_my_col == << "m","y"," ","c","o","l" >>

Type_INTEGER == << "I","N","T","E","G","E","R" >>

Type_INT == << "I","N","T" >>

Type_BIGINT == << "B","I","G","I","N","T" >>

Type_VARCHAR == << "V","A","R","C","H","A","R" >>

Type_TEXT == << "T","E","X","T" >>

ColumnInfo(name, data_type) == [ name |-> name, data_type |-> data_type, nullable |-> TRUE ]

Table(columns, rows) == [ columns |-> columns, rows |-> rows ]

\* the schema (id INTEGER, val VARCHAR) of the generated tables
KeyValColumns == << ColumnInfo(Name_id, Type_INTEGER), ColumnInfo(Name_val, Type_VARCHAR) >>

\* largest number of rows of a generated table
MaxRows == 2

\* the rows a generated (id, val) table can hold, in a fixed order
RowUniverse ==
    << << IntV(1), StrV("") >>, << IntV(1), NULL >>,
       << IntV(2), StrV("a") >>, << NULL, StrV("a") >> >>

\* the row lists of at most n rows, one per multiset of rows
RowLists(n) ==
    { [ i \in DOMAIN ix |-> RowUniverse[ix[i]] ] :
        ix \in { s \in UNION { [ 1 .. k -> DOMAIN RowUniverse ] : k \in 0 .. n } :
                   \A i \in 1 .. (Len(s) - 1) : s[i] <= s[i + 1] } }

\* two (id, val) tables with every combination of row multisets
RowDatabases ==
    { [ t \in { Name_src, Name_tgt } |->
          Table(KeyValColumns, IF t = Name_src THEN rs ELSE rt) ] :
        rs \in RowLists(MaxRows), rt \in RowLists(MaxRows) }

\* tests/conftest.py, sample_tables, restricted to the columns id, name, age
SampleTables ==
    [ t \in { Name_src, Name_tgt } |->
        Table(<< ColumnInfo(Name_id, Type_INTEGER), ColumnInfo(Name_name, Type_VARCHAR),
                 ColumnInfo(Name_age, Type_INTEGER) >>,
              IF t = Name_src
              THEN << << IntV(1), StrV("Alice"), IntV(30) >>,
                      << IntV(2), StrV("Bob"), IntV(25) >>,
                      << IntV(3), StrV("Charlie"), IntV(35) >>,
                      << IntV(4), StrV("Diana"), IntV(28) >>,
                      << IntV(5), StrV("Eve"), IntV(32) >> >>
              ELSE << << IntV(1), StrV("Alice"), IntV(30) >>,
                      << IntV(2), StrV("Bobby"), IntV(25) >>,
                      << IntV(3), StrV("Charlie"), IntV(36) >>,
                      << IntV(5), StrV("Eve"), IntV(32) >>,
                      << IntV(6), StrV("Frank"), IntV(29) >> >>) ]

\* tests/conftest.py, null_handling_tables: the same rows on both sides
NullHandlingTables ==
    [ t \in { Name_src, Name_tgt } |->
        Table(<< ColumnInfo(Name_id, Type_INTEGER), ColumnInfo(Name_name, Type_VARCHAR),
                 ColumnInfo(Name_val, Type_VARCHAR) >>,
              << << IntV(1), StrV("With Value"), StrV("a") >>,
                 << IntV(2), StrV("With NULL"), NULL >>,
                 << IntV(3), StrV("With Empty"), StrV("") >> >>) ]

\* one key whose val is NULL in the source and the text of
\* QueryBuilder.null_sentinel in the target
SentinelTables ==
    [ t \in { Name_src, Name_tgt } |->
        Table(KeyValColumns,
              IF t = Name_src THEN << << IntV(1), NULL >> >>
              ELSE << << IntV(1), StrV(null_sentinel) >> >>) ]

\* one key whose name and val hold QueryBuilder.column_delimiter on
\* different sides of the column boundary
DelimiterTables ==
    [ t \in { Name_src, Name_tgt } |->
        Table(<< ColumnInfo(Name_id, Type_INTEGER), ColumnInfo(Name_name, Type_VARCHAR),
                 ColumnInfo(Name_val, Type_VARCHAR) >>,
              IF t = Name_src
              THEN << << IntV(1), StrV("a" \o column_delimiter \o "b"), StrV("c") >> >>
              ELSE << << IntV(1), StrV("a"), StrV("b" \o column_delimiter \o "c") >> >>) ]

\* tests/core/test_differ.py, test_count_check_three_tables_mismatch: t1, t2
\* and t3 (id INT) with 3, 3 and 2 rows
ThreeCountTables ==
    [ t \in { Name_src, Name_tgt, Name_t3 } |->
        Table(<< ColumnInfo(Name_id, Type_INT) >>,
              IF t = Name_t3
              THEN << << IntV(1) >>, << IntV(2) >> >>
              ELSE << << IntV(1) >>, << IntV(2) >>, << IntV(3) >> >>) ]

\* schemas of the source table of a gate database, each with one row
SourceTables ==
    { Table(KeyValColumns, << << IntV(1), StrV("a") >> >>),
      Table(<< ColumnInfo(Name_val, Type_VARCHAR) >>, << << StrV("a") >> >>),
      Table(<< ColumnInfo(Name_id, Type_INTEGER), ColumnInfo(Name_my_col, Type_VARCHAR) >>,
            << << IntV(1), StrV("a") >> >>) }

\* schemas of the target table of a gate database: same schema, synonyms and
\* other case, key missing, key of another type, other columns
TargetTables ==
    { Table(KeyValColumns, << << IntV(1), NULL >>, << IntV(2), StrV("a") >> >>),
      Table(<< ColumnInfo(Name_ID, Type_INT), ColumnInfo(Name_val, Type_TEXT) >>,
            << << IntV(1), StrV("a") >> >>),
      Table(<< ColumnInfo(Name_val, Type_VARCHAR), ColumnInfo(Name_extra, Type_INTEGER) >>,
            << << StrV("a"), IntV(7) >> >>),
      Table(<< ColumnInfo(Name_id, Type_VARCHAR), ColumnInfo(Name_val, Type_VARCHAR) >>,
            << << StrV("a"), StrV("a") >> >>),
      Table(<< ColumnInfo(Name_id, Type_INTEGER), ColumnInfo(Name_my_col, Type_VARCHAR) >>,
            << >>) }

\* databases that exercise the gates of diff, quick_check and count_check
GateDatabases ==
    { [ t \in { Name_src, Name_tgt } |-> IF t = Name_src THEN s ELSE g ] :
        s \in SourceTables, g \in TargetTables }
      \cup { SampleTables, NullHandlingTables, ThreeCountTables }

\* the arguments of one call
Call(op, source_table, target_table, key_column, columns, limit, threshold, tables) ==
    [ op |-> op, source_table |-> source_table, target_table |-> target_table,
      key_column |-> key_column, columns |-> columns, limit |-> limit,
      threshold |-> threshold, tables |-> tables ]

\* longest table list given to count_check
MaxTables == 3

\* the calls made on a gate database
GateCalls ==
    { Call("diff", s, t, Some(k), cl[1], cl[2], Ratio(0, 1), << >>) :
        s \in { Name_src, Name_ghost, Name_injection },
        t \in { Name_tgt, Name_ghost, Name_injection },
        k \in { Name_id, Name_ID, Name_val, Name_my_col },
        cl \in ({ None, Some(<< Name_val >>), Some(<< Name_my_col, Name_id >>),
                   Some(<< Name_ID, Name_extra >>) } \X { None })
                 \cup ({ None } \X { Some(0), Some(1), Some(-1) }) }
    \cup
    { Call("quick_check", s, t, Some(k), c, None, Ratio(0, 1), << >>) :
        s \in { Name_src, Name_ghost, Name_injection },
        t \in { Name_tgt, Name_ghost, Name_injection },
        k \in { Name_id, Name_ID, Name_val, Name_my_col },
        c \in { None, Some(<< Name_val >>), Some(<< Name_extra >>) } }
    \cup
    { Call("compare_schemas", s, t, None, None, None, Ratio(0, 1), << >>) :
        s \in { Name_src, Name_ghost, Name_injection },
        t \in { Name_tgt, Name_ghost, Name_injection } }
    \cup
    { Call(op, s, << >>, None, None, None, Ratio(0, 1), << >>) :
        op \in { "get_schema", "get_row_count" },
        s \in { Name_src, Name_padded, Name_ghost, << " " >> \o Name_ghost,
                Name_injection } }
    \cup
    { Call("count_check", << >>, << >>, k, None, None, Ratio(0, 1), ts) :
        k \in { None, Some(Name_id) },
        ts \in UNION { [ 1 .. n -> { Name_src, Name_t3, Name_injection } ] :
                         n \in 0 .. MaxTables } }

\* the calls made on a database of generated rows
RowCalls ==
    { Call("diff", Name_src, t, Some(Name_id), None, None, Ratio(0, 1), << >>) :
        t \in { Name_src, Name_tgt } }
    \cup
    { Call("quick_check", Name_src, t, Some(kc[1]), kc[2], None, Ratio(0, 1), << >>) :
        t \in { Name_src, Name_tgt },
        kc \in ({ Name_id } \X { None, Some(<< >>), Some(<< Name_val >>),
                                 Some(<< Name_val, Name_extra >>) })
                 \cup { << Name_my_col, None >> } }

Init ==
    /\ db \in GateDatabases
    /\ pc = "idle"
    /\ args = NoArgs
    /\ issued = << >>
    /\ frame = EmptyFrame
    /\ result = Pending

Next ==
    \/ diff(GateCalls)
    \/ quick_check(GateCalls)
    \/ compare_schemas(GateCalls)
    \/ get_schema_call(GateCalls)
    \/ get_row_count_call(GateCalls)
    \/ count_check(GateCalls)
    \/ \E faults \in BOOLEAN : SchemaSource(faults)
    \/ \E faults \in BOOLEAN : SchemaTarget(faults)
    \/ \E faults \in BOOLEAN : CountSource(faults)
    \/ \E faults \in BOOLEAN : CountTarget(faults)
    \/ \E faults \in BOOLEAN : HashComparison(faults)
    \/ \E faults \in BOOLEAN : AggregateSource(faults)
    \/ \E faults \in BOOLEAN : AggregateTarget(faults)
    \/ \E faults \in BOOLEAN : CountCheckTable(faults)
    \/ Return

\* every call on the gate databases, against a backend that may fail
Spec == Init /\ [][Next]_vars

NextReliable ==
    \/ diff(GateCalls)
    \/ quick_check(GateCalls)
    \/ compare_schemas(GateCalls)
    \/ get_schema_call(GateCalls)
    \/ get_row_count_call(GateCalls)
    \/ count_check(GateCalls)
    \/ SchemaSource(FALSE)
    \/ SchemaTarget(FALSE)
    \/ CountSource(FALSE)
    \/ CountTarget(FALSE)
    \/ HashComparison(FALSE)
    \/ AggregateSource(FALSE)
    \/ AggregateTarget(FALSE)
    \/ CountCheckTable(FALSE)
    \/ Return

\* every call on the gate databases, against a backend that fails only for
\* what the statement itself refers to
SpecReliable == Init /\ [][NextReliable]_vars

InitRows ==
    /\ db \in RowDatabases \cup { SampleTables, NullHandlingTables,
                               SentinelTables, DelimiterTables }
    /\ pc = "idle"
    /\ args = NoArgs
    /\ issued = << >>
    /\ frame = EmptyFrame
    /\ result = Pending

NextRows ==
    \/ diff(RowCalls)
    \/ quick_check(RowCalls)
    \/ AggregateSource(FALSE)
    \/ AggregateTarget(FALSE)
    \/ SchemaSource(FALSE)
    \/ SchemaTarget(FALSE)
    \/ CountSource(FALSE)
    \/ CountTarget(FALSE)
    \/ HashComparison(FALSE)
    \/ Return

\* diff on every pair of generated tables, against a backend that answers
SpecRows == InitRows /\ [][NextRows]_vars

\* most RowDiff entries of a directly constructed DiffResult
MaxDifferences == 10

\* row counts and thresholds of directly constructed DiffResults
RowCounts == { 0, 1, 5, 10, 100 }

Thresholds == { Ratio(0, 1), Ratio(1, 20), Ratio(1, 2), Ratio(1, 1) }

\* DiffResult(...) built by a caller, as tests/core/test_differ.py does
NewDiffResult ==
    /\ pc = "idle"
    /\ \E s \in RowCounts, t \in RowCounts, n \in 0 .. MaxDifferences, th \in Thresholds :
        result' = Returned(
            [ source_table      |-> Name_src,
              target_table      |-> Name_tgt,
              source_row_count  |-> s,
              target_row_count  |-> t,
              schema_comparison |-> SchemaComparison(<< >>, << >>),
              differences       |-> [ i \in 1 .. n |->
                                        [ key |-> IntV(i), diff_type |-> "MODIFIED",
                                          source_hash |-> NULL, target_hash |-> NULL ] ],
              threshold         |-> th,
              columns_compared  |-> << >>,
              key_column        |-> << >> ])
    /\ args' = [ NoArgs EXCEPT !.op = "DiffResult" ]
    /\ pc' = "done"
    /\ UNCHANGED << db, issued, frame >>

\* format_diff_result_json (cli/output.py): the status and exit_code fields
format_diff_result_json(r) ==
    IF is_match(r) \/ (r.threshold.num > 0 /\ is_within_threshold(r))
    THEN [ status |-> "match", exit_code |-> 0 ]
    ELSE [ status |-> "mismatch", exit_code |-> 1 ]

\* the typer.Exit code at the end of the compare command
ExitCode(r, threshold, fail_on_modified) ==
    IF is_match(r) THEN 0
    ELSE IF threshold.num > 0 /\ is_within_threshold(r) THEN 0
    ELSE LET has_added_or_removed == added_count(r) > 0 \/ removed_count(r) > 0
             has_modified         == modified_count(r) > 0
             should_fail          == has_added_or_removed
                                       \/ (fail_on_modified /\ has_modified)
         IN  IF should_fail THEN 1 ELSE 0

\* most differences of one type in the result of a compare run
MaxOfType == 2

\* the compare command with --json from the return of differ.diff on: what
\* it prints and the code it exits with.  The result has added rows, then
\* removed, then modified ones, no more than the row counts allow.
compare ==
    /\ pc = "idle"
    /\ \E s \in RowCounts, t \in RowCounts, threshold \in Thresholds,
          fail_on_modified \in BOOLEAN,
          a \in 0 .. MaxOfType, d \in 0 .. MaxOfType, m \in 0 .. MaxOfType :
        LET type(i) == IF i <= a THEN "ADDED" ELSE IF i <= a + d THEN "REMOVED"
                       ELSE "MODIFIED"
            r == [ source_table      |-> Name_src,
                   target_table      |-> Name_tgt,
                   source_row_count  |-> s,
                   target_row_count  |-> t,
                   schema_comparison |-> SchemaComparison(<< >>, << >>),
                   differences       |-> [ i \in 1 .. (a + d + m) |->
                                             [ key |-> IntV(i), diff_type |-> type(i),
                                               source_hash |-> NULL, target_hash |-> NULL ] ],
                   threshold         |-> threshold,
                   columns_compared  |-> << >>,
                   key_column        |-> << >> ]
        IN  /\ d + m <= s
            /\ a + m <= t
            /\ args' = [ NoArgs EXCEPT !.op = "compare", !.threshold = threshold,
                                       !.tables = << fail_on_modified >> ]
            /\ result' = Returned([ diff        |-> r,
                                    json        |-> format_diff_result_json(r),
                                    exit_code   |-> ExitCode(r, threshold, fail_on_modified) ])
    /\ pc' = "done"
    /\ UNCHANGED << db, issued, frame >>

InitResult ==
    /\ db = SampleTables
    /\ pc = "idle"
    /\ args = NoArgs
    /\ issued = << >>
    /\ frame = EmptyFrame
    /\ result = Pending

NextResult ==
    \/ NewDiffResult
    \/ compare
    \/ Return

\* the derived properties of DiffResult on every constructed result
SpecResult == InitResult /\ [][NextResult]_vars

\* ------------------------------------------------------------------------
\* The pure functions of sql_utils.py and ColumnInfo, called directly as the
\* unit tests call them.  The text arguments of such a call are held in
\* args.tables, in call order.
\* ------------------------------------------------------------------------

\* type names given to ColumnInfo._normalize_type and type_matches
TypeNames ==
    { << "I","N","T" >>,
      << "I","N","T","4" >>,
      << "I","N","T","8" >>,
      << "F","L","O","A","T","8" >>,
      << "F","L","O","A","T","4" >>,
      << "B","O","O","L" >>,
      << "S","T","R","I","N","G" >>,
      << "T","E","X","T" >>,
      << "I","N","T","E","G","E","R" >>,
      << "B","I","G","I","N","T" >>,
      << "D","O","U","B","L","E" >>,
      << "F","L","O","A","T" >>,
      << "B","O","O","L","E","A","N" >>,
      << "V","A","R","C","H","A","R" >>,
      << "V","A","R","C","H","A","R","(","2","5","5",")" >>,
      << "D","E","C","I","M","A","L","(","1","0",",","2",")" >>,
      << "I","N","T","E","R","V","A","L" >>,
      << "D","A","T","E" >>,
      << "i","n","t","8" >>,
      << "t","e","x","t" >>,
      << "V","a","r","c","h","a","r","(","1","0",")" >> }

\* dot-separated segments the generated identifiers are made of
IdentifierSegments ==
    { << "a" >>,
      << "_","b","1" >>,
      << "T","-","x" >>,
      << "U","N","I","O","N" >>,
      << "1","x" >> }

\* most segments of a generated identifier
MaxSegments == 4

\* every identifier of one to MaxSegments segments
SegmentIdentifiers ==
    { Join(p, ".") : p \in UNION { [ 1 .. n -> IdentifierSegments ] : n \in 1 .. MaxSegments } }

\* identifiers of the injection, quoting and whitespace tests
SpecialIdentifiers ==
    { << "r","e","u","n","i","o","n" >>,
      << "b","a","c","k","d","r","o","p" >>,
      << "d","r","o","p","_","t","a","b","l","e" >>,
      << "D","R","O","P" >>,
      << "a","-","d","r","o","p" >>,
      << "a","-","-","b" >>,
      << "x","p","_","c","m","d" >>,
      << "s","e","l","e","c","t","-","f","r","o","m" >>,
      << "u","s","e","r","s"," ","U","N","I","O","N"," ","S","E","L","E","C","T" >>,
      << "u","s","e","r","s"," ","D","R","O","P"," ","T","A","B","L","E" >>,
      << "u","s","e","r","s"," ","O","R"," ","1","=","1" >>,
      << "O","R"," ","1","=","1" >>,
      << "x"," ","O","R","\n","1","=","1" >>,
      << "x","'"," ","O","R"," ","'","1","'","=","'","1" >>,
      << "o","r" >>,
      << "a",";","b" >>,
      << "a","/","*","b" >>,
      << "a","*","/","b" >>,
      << " ","a"," " >>,
      << "a"," ","b" >>,
      << "\"","a","\""," " >>,
      << " ","\"","a","\"" >>,
      << "\"","a","\"" >>,
      << "'","a","'",".","b" >>,
      << Backtick,"a",Backtick >>,
      << "a","\"","b" >>,
      << "\"","a","\"",".","\"","b","\"" >>,
      << "a",".","b"," " >>,
      << >>,
      << " "," "," " >>,
      << "a","." >> }

\* an identifier one character longer than max_length, without and with a
\* statement separator
LongIdentifier == [ i \in 1 .. (MaxIdentifierLength + 1) |-> "a" ]

LongInjection == [ i \in 1 .. MaxIdentifierLength |-> "a" ] \o << ";" >>

IdentifierPool ==
    SegmentIdentifiers \cup SpecialIdentifiers \cup { LongIdentifier, LongInjection }

\* paths given to sanitize_path
PathPool ==
    { << "/","p","a","t","h","/","t","o","/","d","a","t","a","b","a","s","e",".","d","u","c","k","d","b" >>,
      << ".","/","d","a","t","a","/","m","y","d","b",".","d","u","c","k","d","b" >>,
      << "C",":","/","x","/","m","y"," ","d","b"," ","(","1",")",".","d","b" >>,
      << "~","/","a","[","1","]",".","d","b" >>,
      << "/","d","a","t","a","/","u","n","i","o","n","/","x",".","d","b" >>,
      << "x","/","d","r","o","p","/","y" >>,
      << "s","e","l","e","c","t"," ","x"," ","f","r","o","m"," ","y" >>,
      << "x","p","_","a" >>,
      << "/","t","m","p","/","d","e","l","e","t","e"," ","m","e","/","c","r","e","a","t","e",".","d","b" >>,
      << "i","n","s","e","r","t",".","d","b" >>,
      << "u","p","d","a","t","e",".","d","b" >>,
      << "e","x","e","c",".","s","h" >>,
      << "a",";","b" >>,
      << "a","-","-","b" >>,
      << "/","*","x" >>,
      << "x","*","/" >>,
      << "a"," ","O","R"," ","b","=","c","=","d" >>,
      << "a"," ","A","N","D"," ","1","=","1","=","1" >>,
      << "a","=","b" >>,
      << >>,
      << "a","|","b" >>,
      << "a","&","b" >>,
      << "a","\n" >>,
      << "\n" >> }

\* what a function that returns a value or raises left behind
CallResult(r) == IF r.ok THEN Returned(r.value) ELSE Raised(Error(r.error, None))

call_normalize_type ==
    /\ pc = "idle"
    /\ \E dtype \in TypeNames :
        /\ args' = [ NoArgs EXCEPT !.op = "_normalize_type", !.tables = << dtype >> ]
        /\ result' = Returned(_normalize_type(dtype))
    /\ pc' = "done"
    /\ UNCHANGED << db, issued, frame >>

call_type_matches ==
    /\ pc = "idle"
    /\ \E dtype \in TypeNames, other \in TypeNames :
        /\ args' = [ NoArgs EXCEPT !.op = "type_matches", !.tables = << dtype, other >> ]
        /\ result' = Returned(type_matches(ColumnInfo(Name_id, dtype),
                                           ColumnInfo(Name_id, other)))
    /\ pc' = "done"
    /\ UNCHANGED << db, issued, frame >>

call_sanitize_identifier ==
    /\ pc = "idle"
    /\ \E identifier \in IdentifierPool :
        /\ args' = [ NoArgs EXCEPT !.op = "sanitize_identifier", !.tables = << identifier >> ]
        /\ result' = CallResult(sanitize_identifier(identifier))
    /\ pc' = "done"
    /\ UNCHANGED << db, issued, frame >>

call_quote_identifier ==
    /\ pc = "idle"
    /\ \E identifier \in IdentifierPool :
        /\ args' = [ NoArgs EXCEPT !.op = "quote_identifier", !.tables = << identifier >> ]
        /\ result' = CallResult(quote_identifier(identifier))
    /\ pc' = "done"
    /\ UNCHANGED << db, issued, frame >>

call_sanitize_path ==
    /\ pc = "idle"
    /\ \E path \in PathPool :
        /\ args' = [ NoArgs EXCEPT !.op = "sanitize_path", !.tables = << path >> ]
        /\ result' = CallResult(sanitize_path(path))
    /\ pc' = "done"
    /\ UNCHANGED << db, issued, frame >>

\* offsets given to parse_offset_to_seconds: every combination of a lead, an
\* amount, a separator, a unit, a plural ending and a tail, and the strings of
\* the tests that have no amount or no unit
OffsetPool ==
    { lead \o amount \o sep \o unit \o plural \o tail :
        lead   \in { << >>, << " "," " >> },
        amount \in
          { << "5" >>,
            << "1" >>,
            << "3","0" >>,
            << "0","0","7" >>,
            << "f","i","v","e" >>,
            << "-","5" >>,
            << >> },
        sep    \in { << >>, << " " >>, << " "," " >>, << "\t" >> },
        unit   \in
          { << "s","e","c","o","n","d" >>,
            << "m","i","n","u","t","e" >>,
            << "h","o","u","r" >>,
            << "d","a","y" >>,
            << "w","e","e","k" >>,
            << "f","o","r","t","n","i","g","h","t" >>,
            << "M","I","N","U","T","E" >>,
            << "H","o","u","r" >> },
        plural \in { << >>, << "s" >>, << "s","s" >> },
        tail   \in
          { << >>,
            << " ","a","g","o" >>,
            << " "," ","A","g","o" >>,
            << " ","a","g","o"," ","a","g","o" >>,
            << "a","g","o" >>,
            << " ","e","x","t","r","a"," ","w","o","r","d","s" >>,
            << " "," " >> } }
      \cup { << >>, << " "," "," " >>, << "5" >> }

call_parse_offset_to_seconds ==
    /\ pc = "idle"
    /\ \E offset \in OffsetPool :
        LET r == parse_offset_to_seconds(offset)
        IN  /\ args' = [ NoArgs EXCEPT !.op = "parse_offset_to_seconds",
                                       !.tables = << offset >> ]
            /\ result' = IF r.ok THEN Returned(r.value)
                         ELSE Raised([ type |-> r.error, message |-> r.message ])
    /\ pc' = "done"
    /\ UNCHANGED << db, issued, frame >>

\* what a build_* method asks of the dialect's adapter for one table
\* reference: wrap_table_with_time_travel whenever a timestamp or an offset
\* is given, whatever the dialect
TimeTravelCalls(dialect, table, timestamp, offset) ==
    IF timestamp # None \/ offset # None
    THEN << [ method |-> "wrap_table_with_time_travel", dialect |-> dialect,
              table |-> table, timestamp |-> timestamp, offset |-> offset ] >>
    ELSE << >>

\* QueryBuilder.build_count_query(table, dialect, timestamp, offset): the
\* statement, and the adapter methods invoked while building it
call_build_count_query ==
    /\ pc = "idle"
    /\ \E table \in { Name_src, Name_injection },
          dialect \in { "duckdb", "snowflake" },
          timestamp \in { None, Some(<< "2","0","2","4","-","0","1","-","0","1" >>) },
          offset \in { None, Some(<< "5"," ","m","i","n","u","t","e","s" >>) } :
        LET query == build_count_query(table)
        IN  /\ args' = [ NoArgs EXCEPT !.op = "build_count_query",
                                       !.tables = << table, dialect, timestamp, offset >> ]
            /\ result' =
                 IF ~query.ok THEN Raised(Error(query.error.type, None))
                 ELSE Returned([ query         |-> query.query,
                                 adapter_calls |->
                                     TimeTravelCalls(dialect,
                                                     sanitize_identifier(table).value,
                                                     timestamp, offset) ])
    /\ pc' = "done"
    /\ UNCHANGED << db, issued, frame >>

\* _build_count_query of the count command without its conflict check
_build_count_query_Unchecked(spec, key_column, table_ref) ==
    LET truthy(x)  == x # None /\ x[1] # << >>
        table      == sanitize_identifier(IF truthy(table_ref) THEN table_ref[1]
                                          ELSE spec.table)
        group_cols == IF truthy(spec.group_by) THEN spec.group_by[1] ELSE << >>
        bad_cols   == { i \in DOMAIN group_cols : ~sanitize_identifier(group_cols[i]).ok }
    IN  IF ~table.ok THEN [ ok |-> FALSE, error |-> table.error ]
        ELSE IF truthy(spec.group_by)
        THEN IF bad_cols # {}
             THEN [ ok    |-> FALSE,
                    error |-> sanitize_identifier(
                                  group_cols[CHOOSE i \in bad_cols :
                                                \A j \in bad_cols : i <= j]).error ]
             ELSE [ ok    |-> TRUE,
                    value |-> [ form |-> "group_by", table |-> table.value,
                                columns |-> [ i \in DOMAIN group_cols |->
                                                sanitize_identifier(group_cols[i]).value ] ] ]
        ELSE IF truthy(key_column)
        THEN IF ~sanitize_identifier(key_column[1]).ok
             THEN [ ok |-> FALSE, error |-> sanitize_identifier(key_column[1]).error ]
             ELSE [ ok    |-> TRUE,
                    value |-> [ form |-> "distinct", table |-> table.value,
                                columns |-> << sanitize_identifier(key_column[1]).value >> ] ]
        ELSE [ ok    |-> TRUE,
               value |-> [ form |-> "rows", table |-> table.value, columns |-> << >> ] ]

\* _build_count_query of the count command (cli/commands/count): spec is
\* the TableSpec's [table, group_by]; an empty list or string counts as
\* absent, as Python's truth test has it
_build_count_query(spec, key_column, table_ref) ==
    LET truthy(x) == x # None /\ x[1] # << >>
    IN  IF truthy(spec.group_by) /\ truthy(key_column)
        THEN [ ok |-> FALSE, error |-> "ValueError" ]
        ELSE _build_count_query_Unchecked(spec, key_column, table_ref)

call__build_count_query ==
    /\ pc = "idle"
    /\ \E table \in { Name_src, Name_injection },
          group_by \in { None, Some(<< >>), Some(<< Name_id >>),
                         Some(<< Name_id, Name_val >>), Some(<< Name_my_col >>) },
          key_column \in { None, Some(<< >>), Some(Name_id), Some(Name_my_col) },
          table_ref \in { None, Some(Name_tgt) } :
        /\ args' = [ NoArgs EXCEPT !.op = "_build_count_query",
                                   !.tables = << [ table |-> table, group_by |-> group_by ],
                                                 key_column, table_ref >> ]
        /\ result' = CallResult(_build_count_query([ table |-> table, group_by |-> group_by ],
                                                   key_column, table_ref))
    /\ pc' = "done"
    /\ UNCHANGED << db, issued, frame >>

\* the caller hands what quote_identifier returned to quote_identifier again
requote_identifier ==
    /\ pc = "done"
    /\ args.op = "quote_identifier"
    /\ result.status = "returned"
    /\ args' = [ NoArgs EXCEPT !.op = "requote_identifier", !.tables = << result.value >> ]
    /\ result' = CallResult(quote_identifier(result.value))
    /\ pc' = "done"
    /\ UNCHANGED << db, issued, frame >>

InitFunctions ==
    /\ db = SampleTables
    /\ pc = "idle"
    /\ args = NoArgs
    /\ issued = << >>
    /\ frame = EmptyFrame
    /\ result = Pending

NextFunctions ==
    \/ call_normalize_type
    \/ call_type_matches
    \/ call_sanitize_identifier
    \/ call_quote_identifier
    \/ requote_identifier
    \/ call_sanitize_path
    \/ call_parse_offset_to_seconds
    \/ call_build_count_query
    \/ call__build_count_query
    \/ Return

\* the pure functions on every text of the pools
SpecFunctions == InitFunctions /\ [][NextFunctions]_vars


\* ------------------------------------------------------------------------
\* DuckDBConnector (connector.py): the alias registry.  In this
\* specification db holds the connector and what lies behind it: the files
\* that exist, whether _connection is set, the databases attached in the
\* backend connection (alias -> path) and _attached_databases.
\* ------------------------------------------------------------------------

Path_a == << "a",".","d","b" >>

Path_b == << "b",".","d","b" >>

Path_injection == << "a",";","b" >>

AttachPaths == { Path_a, Path_b, Path_injection }

AliasPool == { Name_src, Name_padded, Name_tgt, Name_injection }

EmptyRegistry == [ n \in {} |-> None ]

\* AttachedDatabase(name, DUCKDB, attached=True, metadata={path, read_only})
AttachedDatabase(name, path, read_only) ==
    [ name |-> name, attached |-> TRUE, path |-> path, read_only |-> read_only ]

\* "del registry[name]"
Without(registry, name) == [ n \in DOMAIN registry \ { name } |-> registry[n] ]

\* close with the registry left as it was
close_RegistryKept ==
    /\ pc = "idle"
    /\ db' = IF db.connection
             THEN [ db EXCEPT !.connection = FALSE, !.backend = EmptyRegistry ]
             ELSE db
    /\ args' = [ NoArgs EXCEPT !.op = "close" ]
    /\ issued' = << >>
    /\ Finish(Returned(None))
    /\ UNCHANGED frame

\* DuckDBConnector.__init__ on a file system with any of the two files
InitConnector ==
    /\ db \in { [ files |-> f, connection |-> FALSE, backend |-> EmptyRegistry,
                  _attached_databases |-> EmptyRegistry ] :
                f \in SUBSET { Path_a, Path_b } }
    /\ pc = "idle"
    /\ args = NoArgs
    /\ issued = << >>
    /\ frame = EmptyFrame
    /\ result = Pending

\* DuckDBConnector.attach_duckdb(name, path, read_only).  The backend may
\* refuse any ATTACH and refuses one whose alias it already holds.
attach_duckdb ==
    /\ pc = "idle"
    /\ \E name \in AliasPool, path \in AttachPaths, read_only \in BOOLEAN :
        LET sanitized_name == sanitize_identifier(name)
            sanitized_path == sanitize_path(path)
            registry       == db._attached_databases
            statement      == [ kind |-> "ATTACH", path |-> sanitized_path.value,
                                alias |-> sanitized_name.value,
                                mode |-> IF read_only THEN "READ_ONLY" ELSE "READ_WRITE" ]
        IN  /\ args' = [ NoArgs EXCEPT !.op = "attach_duckdb",
                                       !.tables = << name, path, read_only >> ]
            /\ IF ~sanitized_name.ok
               THEN /\ Finish(Raised(Error(sanitized_name.error, None)))
                    /\ UNCHANGED << db, issued >>
               ELSE IF ~sanitized_path.ok
               THEN /\ Finish(Raised(Error(sanitized_path.error, None)))
                    /\ UNCHANGED << db, issued >>
               ELSE IF sanitized_path.value \notin db.files
               THEN /\ Finish(Raised(Error("AttachError", None)))
                    /\ UNCHANGED << db, issued >>
               ELSE IF sanitized_name.value \in DOMAIN registry
               THEN /\ IF registry[sanitized_name.value].path = sanitized_path.value
                       THEN Finish(Returned(registry[sanitized_name.value]))
                       ELSE Finish(Raised(Error("AttachError", None)))
                    /\ UNCHANGED << db, issued >>
               ELSE /\ issued' = << statement >>
                    /\ \/ /\ sanitized_name.value \notin DOMAIN db.backend
                          /\ LET attached == AttachedDatabase(sanitized_name.value,
                                                              sanitized_path.value, read_only)
                             IN  /\ db' = [ db EXCEPT
                                              !.connection = TRUE,
                                              !.backend = (sanitized_name.value
                                                             :> sanitized_path.value) @@ @,
                                              !._attached_databases =
                                                  (sanitized_name.value :> attached) @@ @ ]
                                 /\ Finish(Returned(attached))
                       \/ /\ db' = [ db EXCEPT !.connection = TRUE ]
                          /\ Finish(Raised(Error("AttachError", None)))
    /\ UNCHANGED frame

\* DuckDBConnector.detach(name); the backend may refuse the DETACH
detach ==
    /\ pc = "idle"
    /\ \E name \in AliasPool :
        LET sanitized_name == sanitize_identifier(name)
        IN  /\ args' = [ NoArgs EXCEPT !.op = "detach", !.tables = << name >> ]
            /\ IF ~sanitized_name.ok
               THEN /\ Finish(Raised(Error(sanitized_name.error, None)))
                    /\ UNCHANGED << db, issued >>
               ELSE IF sanitized_name.value \notin DOMAIN db._attached_databases
               THEN /\ Finish(Returned(None))
                    /\ UNCHANGED << db, issued >>
               ELSE /\ issued' = << [ kind |-> "DETACH", alias |-> sanitized_name.value ] >>
                    /\ \/ /\ sanitized_name.value \in DOMAIN db.backend
                          /\ db' = [ db EXCEPT
                                       !.connection = TRUE,
                                       !.backend = Without(@, sanitized_name.value),
                                       !._attached_databases =
                                           Without(@, sanitized_name.value) ]
                          /\ Finish(Returned(None))
                       \/ /\ db' = [ db EXCEPT !.connection = TRUE ]
                          /\ Finish(Raised(Error("QueryExecutionError", None)))
    /\ UNCHANGED frame

\* DuckDBConnector.close()
close ==
    /\ pc = "idle"
    /\ db' = IF db.connection
             THEN [ db EXCEPT !.connection = FALSE, !.backend = EmptyRegistry,
                              !._attached_databases = EmptyRegistry ]
             ELSE db
    /\ args' = [ NoArgs EXCEPT !.op = "close" ]
    /\ issued' = << >>
    /\ Finish(Returned(None))
    /\ UNCHANGED frame

\* somebody removes a database file between two calls
remove_file ==
    /\ pc = "idle"
    /\ \E path \in db.files : db' = [ db EXCEPT !.files = @ \ { path } ]
    /\ UNCHANGED << pc, args, issued, frame, result >>

NextConnector ==
    \/ attach_duckdb
    \/ detach
    \/ close
    \/ remove_file
    \/ Return

\* a connector used by one caller, one call at a time
SpecConnector == InitConnector /\ [][NextConnector]_vars


\* ------------------------------------------------------------------------
\* Vocabulary of the properties
\* ------------------------------------------------------------------------

DiffReturned == pc = "done" /\ args.op = "diff" /\ result.status = "returned"

SourceTable == TableOf(db, args.source_table)

TargetTable == TableOf(db, args.target_table)

KeysOf(table, key) == { Cell(table, r, key) : r \in DOMAIN table.rows }

\* number of rows of a table equal to the given row
Copies(table, row) == Cardinality({ r \in DOMAIN table.rows : table.rows[r] = row })

\* the two tables hold the same rows, each the same number of times
IdenticalRows(s, t) ==
    /\ s.columns = t.columns
    /\ \A row \in Range(s.rows) \cup Range(t.rows) : Copies(s, row) = Copies(t, row)

NoNullKey(table, key) == NULL \notin KeysOf(table, key)

UniqueKey(table, key) ==
    \A i, j \in DOMAIN table.rows : Cell(table, i, key) = Cell(table, j, key) => i = j

\* rows of one table that share a key value agree on every compared column
KeyDeterminesRow(table, key, columns) ==
    \A i, j \in DOMAIN table.rows :
        Cell(table, i, key) = Cell(table, j, key) =>
            \A k \in DOMAIN columns : Cell(table, i, columns[k]) = Cell(table, j, columns[k])

Differences == result.value.differences

KeyColumn == args.key_column[1]

SameTableOrRows ==
    args.source_table = args.target_table \/ IdenticalRows(SourceTable, TargetTable)

\* ------------------------------------------------------------------------
\* C1
\* ------------------------------------------------------------------------

\* C1, as stated: diff of a table that has the key column against itself, or
\* of two tables holding identical rows (NULLs included), returns
\* is_match = True and total_differences = 0.
C1_AsStated ==
    (DiffReturned /\ SameTableOrRows) =>
        (is_match(result.value) /\ total_differences(result.value) = 0)

\* C1, amended: the same, for tables whose key column holds no NULL and in
\* which rows sharing a key value agree on every compared column (so for
\* every table whose key is unique and non-NULL).
C1_IdenticalTablesMatch ==
    ( /\ DiffReturned
      /\ SameTableOrRows
      /\ NoNullKey(SourceTable, KeyColumn)
      /\ KeyDeterminesRow(SourceTable, KeyColumn, result.value.columns_compared) ) =>
        (is_match(result.value) /\ total_differences(result.value) = 0)

\* two distinct tables with the same rows, one of them with a NULL cell, were
\* diffed and matched
C1_Witness ==
    /\ DiffReturned
    /\ args.source_table # args.target_table
    /\ IdenticalRows(SourceTable, TargetTable)
    /\ NoNullKey(SourceTable, KeyColumn)
    /\ KeyDeterminesRow(SourceTable, KeyColumn, result.value.columns_compared)
    /\ Len(SourceTable.rows) >= 2
    /\ \E r \in DOMAIN SourceTable.rows : NULL \in Range(SourceTable.rows[r])
    /\ is_match(result.value)

\* ------------------------------------------------------------------------
\* C2
\* ------------------------------------------------------------------------

\* the classification of C2 for one RowDiff
ClassifiedByKeyPresence(d) ==
    LET onSource == d.key \in KeysOf(SourceTable, KeyColumn)
        onTarget == d.key \in KeysOf(TargetTable, KeyColumn)
    IN  /\ d.diff_type = "ADDED" <=> (onTarget /\ ~onSource)
        /\ d.diff_type = "REMOVED" <=> (onSource /\ ~onTarget)
        /\ (onSource /\ onTarget) => d.diff_type = "MODIFIED"

ValuesOf(table, r, columns) == [ k \in DOMAIN columns |-> Cell(table, r, columns[k]) ]

SourceOnlyKeys == KeysOf(SourceTable, KeyColumn) \ KeysOf(TargetTable, KeyColumn)

TargetOnlyKeys == KeysOf(TargetTable, KeyColumn) \ KeysOf(SourceTable, KeyColumn)

\* keys on both sides with a source row and a target row of different hashes
ChangedKeys ==
    { k \in KeysOf(SourceTable, KeyColumn) \cap KeysOf(TargetTable, KeyColumn) :
        \E i \in DOMAIN SourceTable.rows, j \in DOMAIN TargetTable.rows :
            /\ Cell(SourceTable, i, KeyColumn) = k
            /\ Cell(TargetTable, j, KeyColumn) = k
            /\ md5_hash(HashInput(ValuesOf(SourceTable, i, result.value.columns_compared)))
                 # md5_hash(HashInput(ValuesOf(TargetTable, j, result.value.columns_compared))) }

ReportedKeysAndCounts ==
    /\ { Differences[i].key : i \in DOMAIN Differences }
         = SourceOnlyKeys \cup TargetOnlyKeys \cup ChangedKeys
    /\ added_count(result.value) = Cardinality(TargetOnlyKeys)
    /\ removed_count(result.value) = Cardinality(SourceOnlyKeys)
    /\ modified_count(result.value) = Cardinality(ChangedKeys)

\* C3, as stated: without a limit the reported keys are the one-sided keys
\* plus the common keys whose hashes differ, and the three counts are the
\* sizes of those key sets.
C3_AsStated == (DiffReturned /\ args.limit = None) => ReportedKeysAndCounts

\* C3, amended: the same, provided the key values of each table are unique
\* and non-NULL.
C3_ReportedKeys ==
    ( /\ DiffReturned
      /\ args.limit = None
      /\ NoNullKey(SourceTable, KeyColumn) /\ UniqueKey(SourceTable, KeyColumn)
      /\ NoNullKey(TargetTable, KeyColumn) /\ UniqueKey(TargetTable, KeyColumn) ) =>
        ReportedKeysAndCounts

\* source keys 1..5, target keys 1,2,3,5,6, rows 2 and 3 changed: 1, 1 and 2
C3_Witness ==
    /\ DiffReturned
    /\ args.limit = None
    /\ KeysOf(SourceTable, KeyColumn) = { IntV(k) : k \in 1 .. 5 }
    /\ KeysOf(TargetTable, KeyColumn) = { IntV(k) : k \in { 1, 2, 3, 5, 6 } }
    /\ added_count(result.value) = 1
    /\ removed_count(result.value) = 1
    /\ modified_count(result.value) = 2

\* ------------------------------------------------------------------------
\* C8
\* ------------------------------------------------------------------------

Compared == result.value.columns_compared

\* source row i and target row j carry the same non-NULL key
SameKey(i, j) ==
    /\ ~IsNull(Cell(SourceTable, i, KeyColumn))
    /\ Cell(SourceTable, i, KeyColumn) = Cell(TargetTable, j, KeyColumn)

\* in compared column c one of the two cells is NULL and the other is ''
NullVersusEmpty(i, j, c) ==
    { Cell(SourceTable, i, c), Cell(TargetTable, j, c) } = { NULL, StrV("") }

\* C8: a source row and a target row that agree on every compared column,
\* NULL standing against NULL, have the same hash input and are not told
\* apart; when a column holds NULL on one side and '' on the other the hash
\* inputs differ and the key is reported MODIFIED with the two hashes.
C8_NullSafeHash ==
    DiffReturned =>
        \A i \in DOMAIN SourceTable.rows, j \in DOMAIN TargetTable.rows :
            SameKey(i, j) =>
                LET sv == ValuesOf(SourceTable, i, Compared)
                    tv == ValuesOf(TargetTable, j, Compared)
                IN  /\ sv = tv =>
                          /\ HashInput(sv) = HashInput(tv)
                          /\ \A d \in DOMAIN Differences :
                                 ~ /\ Differences[d].source_hash = md5_hash(HashInput(sv))
                                   /\ Differences[d].target_hash = md5_hash(HashInput(tv))
                    /\ (\E c \in Range(Compared) : NullVersusEmpty(i, j, c)) =>
                          /\ HashInput(sv) # HashInput(tv)
                          /\ \E d \in DOMAIN Differences :
                                 /\ Differences[d].key = Cell(SourceTable, i, KeyColumn)
                                 /\ Differences[d].diff_type = "MODIFIED"
                                 /\ Differences[d].source_hash = md5_hash(HashInput(sv))
                                 /\ Differences[d].target_hash = md5_hash(HashInput(tv))

\* one key with NULL on both sides left unreported beside one key with NULL
\* against '' reported MODIFIED
C8_Witness ==
    /\ DiffReturned
    /\ \E i \in DOMAIN SourceTable.rows, j \in DOMAIN TargetTable.rows :
           /\ SameKey(i, j)
           /\ NULL \in Range(SourceTable.rows[i])
           /\ SourceTable.rows[i] = TargetTable.rows[j]
    /\ \E i \in DOMAIN SourceTable.rows, j \in DOMAIN TargetTable.rows :
           /\ SameKey(i, j)
           /\ \E c \in Range(Compared) : NullVersusEmpty(i, j, c)
           /\ \E d \in DOMAIN Differences :
                  /\ Differences[d].key = Cell(SourceTable, i, KeyColumn)
                  /\ Differences[d].diff_type = "MODIFIED"

\* ------------------------------------------------------------------------
\* C4
\* ------------------------------------------------------------------------

Rejected(identifier) == ~sanitize_identifier(identifier).ok

\* the columns of a table named as the key, case-insensitively
KeyColumnsOf(table, key) ==
    { i \in DOMAIN table.columns : Lower(table.columns[i].name) = Lower(key) }

\* the key is absent from a side, or its two definitions are not type-compatible
KeyUnusable(source, target, key) ==
    \/ KeyColumnsOf(source, key) = {}
    \/ KeyColumnsOf(target, key) = {}
    \/ \E i \in KeyColumnsOf(source, key), j \in KeyColumnsOf(target, key) :
           ~type_matches(source.columns[i], target.columns[j])

\* a diff call on two existing tables whose key column is unusable
DiffOnUnusableKey ==
    /\ args.op = "diff"
    /\ ~Rejected(args.source_table) /\ TableExists(db, args.source_table)
    /\ ~Rejected(args.target_table) /\ TableExists(db, args.target_table)
    /\ KeyUnusable(SourceTable, TargetTable, KeyColumn)

\* C4: a diff whose key column is absent from a schema, or typed
\* incompatibly, never gets past the schema queries: it issues no row-count
\* and no hash-comparison statement, and ends by raising KeyColumnError with
\* exactly the two schema queries issued (unless a schema query itself failed
\* in the backend, which raises SchemaError earlier still).
C4_KeyGateFailsFast ==
    DiffOnUnusableKey =>
        /\ pc \in { "schema_source", "schema_target", "done" }
        /\ Len(issued) <= 2
        /\ \A i \in DOMAIN issued : issued[i].kind = "schema"
        /\ pc = "done" =>
              /\ result.status = "raised"
              /\ result.error.type \in { "KeyColumnError", "SchemaError" }
              /\ result.error.type = "KeyColumnError" =>
                    /\ Len(issued) = 2
                    /\ issued[1].tables = << args.source_table >>
                    /\ issued[2].tables = << args.target_table >>

\* the key is defined on both sides with incompatible types, and diff raised
\* KeyColumnError after the two schema queries
C4_Witness ==
    /\ DiffOnUnusableKey
    /\ KeyColumnsOf(SourceTable, KeyColumn) # {}
    /\ KeyColumnsOf(TargetTable, KeyColumn) # {}
    /\ pc = "done"
    /\ result.status = "raised"
    /\ result.error.type = "KeyColumnError"
    /\ Len(issued) = 2

\* ------------------------------------------------------------------------
\* C5
\* ------------------------------------------------------------------------

\* the call ended with the error of the identifier sanitizer
SanitizerFailure ==
    pc = "done" /\ result.status = "raised" /\ result.error.type = "SQLInjectionError"

\* the first identifier the call puts into a statement
FirstIdentifier ==
    IF args.op = "count_check" THEN args.tables[1] ELSE args.source_table

\* C5, as stated: when a call fails because the sanitizer rejects an
\* identifier, no statement has been issued earlier in that call.
C5_AsStated == SanitizerFailure => issued = << >>

\* C5, amended: when a call fails because the sanitizer rejects an
\* identifier, no issued statement embeds a rejected identifier; nothing at
\* all was issued when the first identifier of the call is the rejected one,
\* and exactly the source schema query was issued when a two-table call has
\* an accepted source table and a rejected target table.
C5_RejectionBeforeItsStatement ==
    SanitizerFailure =>
        /\ \A i \in DOMAIN issued : \A id \in Identifiers(issued[i]) : ~Rejected(id)
        /\ Rejected(FirstIdentifier) => issued = << >>
        /\ ( /\ args.op \in { "diff", "quick_check", "compare_schemas" }
             /\ ~Rejected(args.source_table)
             /\ Rejected(args.target_table) ) =>
               /\ Len(issued) = 1
               /\ issued[1].kind = "schema"
               /\ issued[1].tables = << sanitize_identifier(args.source_table).value >>

\* diff with a rejected target table failed after the source schema query
C5_Witness ==
    /\ SanitizerFailure
    /\ args.op = "diff"
    /\ Rejected(args.target_table)
    /\ Len(issued) = 1

\* ------------------------------------------------------------------------
\* C6
\* ------------------------------------------------------------------------

\* the identifiers a call was given
GivenIdentifiers ==
    { args.source_table, args.target_table } \cup Range(args.tables)
        \cup Range(args.key_column)
        \cup (IF args.columns = None THEN {} ELSE Range(args.columns[1]))

\* C6: every identifier embedded in a statement handed to the backend is
\* accepted by sanitize_identifier, and is what the sanitizer returned for
\* an identifier of the call or the name of a column the backend described.
C6_OnlySanitizedIdentifiers ==
    \A i \in DOMAIN issued :
        \A id \in Identifiers(issued[i]) :
            /\ sanitize_identifier(id).ok
            /\ \/ \E g \in GivenIdentifiers :
                      sanitize_identifier(g).ok /\ sanitize_identifier(g).value = id
               \/ \E t \in DOMAIN db : \E c \in Range(db[t].columns) : c.name = id

\* a diff given a key name the sanitizer rejects has had its four schema and
\* count statements issued, each from accepted identifiers
C6_Witness ==
    /\ \E g \in GivenIdentifiers : Rejected(g)
    /\ issued # << >>
    /\ args.op = "diff"
    /\ Len(issued) = 4

\* ------------------------------------------------------------------------
\* C7
\* ------------------------------------------------------------------------

\* the statements of a diff call in their fixed order: kind and tables
DiffOrder(a) ==
    LET name(x) == IF Rejected(x) THEN x ELSE sanitize_identifier(x).value
        s == name(a.source_table)
        t == name(a.target_table)
    IN  << [ kind |-> "schema", tables |-> << s >> ],
           [ kind |-> "schema", tables |-> << t >> ],
           [ kind |-> "count", tables |-> << s >> ],
           [ kind |-> "count", tables |-> << t >> ],
           [ kind |-> "hash_comparison", tables |-> << s, t >> ] >>

\* the statements are the first ones of the fixed order, each once
InDiffOrder(a, stmts) ==
    /\ Len(stmts) <= 5
    /\ \A i \in DOMAIN stmts :
           /\ stmts[i].kind = DiffOrder(a)[i].kind
           /\ stmts[i].tables = DiffOrder(a)[i].tables

\* C7: every step of a diff call leaves the issued statements a prefix of
\* schema(source), schema(target), count(source), count(target),
\* hash-comparison; a step issues at most one statement, none once the call
\* has raised or returned; a call that returns has issued all five.
C7_OrderedGates ==
    [][ args'.op = "diff" =>
          /\ InDiffOrder(args', issued')
          /\ result'.status = "returned" => Len(issued') = 5
          /\ args' = args =>
                /\ \/ issued' = issued
                   \/ /\ result.status = "none"
                      /\ Len(issued') = Len(issued) + 1
                      /\ SubSeq(issued', 1, Len(issued)) = issued
                /\ result'.status = "none" => Len(issued') = Len(issued) + 1 ]_vars

\* a diff raised at its third statement, after issuing three
C7_Witness ==
    /\ pc = "done"
    /\ args.op = "diff"
    /\ result.status = "raised"
    /\ Len(issued) = 3
    /\ issued[3].kind = "count"

\* ------------------------------------------------------------------------
\* C9
\* ------------------------------------------------------------------------

Constructed == pc = "done" /\ args.op = "DiffResult"

\* C9: diff_percentage is total_differences / max(source_row_count,
\* target_row_count) * 100, and 0 when both counts are 0; is_within_threshold
\* holds exactly when diff_percentage / 100 <= threshold; 2 of 5 rows (40%)
\* is within 0.5, 1 of 10 rows (10%) is not within 0.05, 1 of 100 rows (1%)
\* is within 0.05.
C9_PercentageAndThreshold ==
    Constructed =>
        LET r  == result.value
            n  == Len(r.differences)
            m  == IF r.source_row_count >= r.target_row_count
                  THEN r.source_row_count ELSE r.target_row_count
            p  == diff_percentage(r)
            th == r.threshold
        IN  /\ p.den > 0
            /\ m = 0 => p.num = 0
            /\ m > 0 => p.num * m = n * 100 * p.den
            /\ is_within_threshold(r) <=> (p.num * th.den <= th.num * p.den * 100)
            /\ is_within_threshold(r) <=> (m = 0 \/ n * th.den <= th.num * m)
            /\ (n = 2 /\ m = 5 /\ th = Ratio(1, 2)) => is_within_threshold(r)
            /\ (n = 1 /\ m = 10 /\ th = Ratio(1, 20)) => ~is_within_threshold(r)
            /\ (n = 1 /\ m = 100 /\ th = Ratio(1, 20)) => is_within_threshold(r)

\* 1 difference on 10 target rows and fewer source rows: 10%, over 0.05
C9_Witness ==
    /\ Constructed
    /\ Len(result.value.differences) = 1
    /\ result.value.source_row_count = 5
    /\ result.value.target_row_count = 10
    /\ result.value.threshold = Ratio(1, 20)
    /\ RatioEq(diff_percentage(result.value), Ratio(10, 1))
    /\ ~is_within_threshold(result.value)

\* ------------------------------------------------------------------------
\* C10
\* ------------------------------------------------------------------------

CountCheckReturned == pc = "done" /\ args.op = "count_check" /\ result.status = "returned"

\* what the backend counts in a table for count_check
BackendCount(table_ref) ==
    IF args.key_column = None
    THEN Len(TableOf(db, table_ref).rows)
    ELSE Cardinality(KeysOf(TableOf(db, table_ref), KeyColumn) \ { NULL })

\* C10: count_check returns one TableCount per table, in the order given,
\* with the count of the backend, after one statement per table in that
\* order; is_match holds exactly when every count equals the first one, so
\* for no table and for one table.
C10_CountCheck ==
    CountCheckReturned =>
        LET tc == result.value.table_counts
        IN  /\ Len(tc) = Len(args.tables)
            /\ Len(issued) = Len(args.tables)
            /\ \A i \in DOMAIN args.tables :
                   /\ tc[i].table = args.tables[i]
                   /\ tc[i].count = BackendCount(args.tables[i])
                   /\ issued[i].tables = << sanitize_identifier(args.tables[i]).value >>
            /\ result.value.is_match <=> (\A i \in DOMAIN tc : tc[i].count = tc[1].count)
            /\ Len(args.tables) <= 1 => result.value.is_match

\* three tables counted 3, 3 and 2 in the order given: not a match
C10_Witness ==
    /\ CountCheckReturned
    /\ Len(args.tables) = 3
    /\ [ i \in 1 .. 3 |-> result.value.table_counts[i].count ] = << 3, 3, 2 >>
    /\ ~result.value.is_match

\* ------------------------------------------------------------------------
\* C11
\* ------------------------------------------------------------------------

\* a diff or quick_check call on two existing tables with accepted names
KeyedCall ==
    /\ args.op \in { "diff", "quick_check" }
    /\ ~Rejected(args.source_table) /\ TableExists(db, args.source_table)
    /\ ~Rejected(args.target_table) /\ TableExists(db, args.target_table)

KeyColumnRaised ==
    pc = "done" /\ result.status = "raised" /\ result.error.type = "KeyColumnError"

MatchingColumns == SchemaComparison(SourceTable.columns, TargetTable.columns).matching_columns

\* the caller's columns that match a matching column case-insensitively, or
\* all matching columns when the caller names none
WantedColumns ==
    IF args.columns = None THEN MatchingColumns
    ELSE SelectSeq(args.columns[1],
                   LAMBDA c : \E i \in DOMAIN MatchingColumns :
                                  Lower(MatchingColumns[i]) = Lower(c))

\* diff raised "no common columns"
NoCommonColumns ==
    /\ pc = "done"
    /\ result.status = "raised"
    /\ result.error.type = "SchemaError"
    /\ result.error.table = None

\* C12: columns_compared of a returned diff is the wanted columns (all
\* matching columns, or the caller's columns that match one), with the key
\* column in front when it is not among them; a diff with a usable key and
\* no wanted column raises SchemaError having issued the schema queries
\* only, and that error is raised in no other case.
C12_ColumnResolution ==
    (KeyedCall /\ args.op = "diff") =>
        /\ DiffReturned =>
              /\ KeyColumn \in Range(Compared)
              /\ Compared = IF KeyColumn \in Range(WantedColumns)
                            THEN WantedColumns
                            ELSE << KeyColumn >> \o WantedColumns
        /\ (~KeyUnusable(SourceTable, TargetTable, KeyColumn) /\ WantedColumns = << >>) =>
              /\ pc \in { "schema_source", "schema_target", "done" }
              /\ \A i \in DOMAIN issued : issued[i].kind = "schema"
              /\ pc = "done" => result.status = "raised" /\ result.error.type = "SchemaError"
        /\ NoCommonColumns =>
              /\ WantedColumns = << >>
              /\ Len(issued) = 2

\* a caller's subset in another case, with a column only one table has: the
\* matching one is kept as the caller wrote it, the other dropped, the key
\* put in front
C12_Witness ==
    /\ DiffReturned
    /\ args.columns # None
    /\ Len(WantedColumns) < Len(args.columns[1])
    /\ WantedColumns # << >>
    /\ \E i \in DOMAIN WantedColumns : WantedColumns[i] \notin Range(MatchingColumns)
    /\ Compared = << KeyColumn >> \o WantedColumns

\* ------------------------------------------------------------------------
\* C13
\* ------------------------------------------------------------------------

\* a SchemaComparisonResult has been returned, by compare_schemas itself or
\* inside the DiffResult of a diff that called it
SchemaCompared ==
    /\ pc = "done"
    /\ result.status = "returned"
    /\ args.op \in { "compare_schemas", "diff" }

ReturnedComparison ==
    IF args.op = "diff" THEN result.value.schema_comparison ELSE result.value

ColumnNames(table) == { table.columns[i].name : i \in DOMAIN table.columns }

\* C13: in every returned SchemaComparisonResult matching_columns and
\* source_only_columns share no name and together hold exactly the source
\* column names; target_only_columns holds exactly the target column names
\* without a case-insensitive match among the source columns; no list names
\* a column twice.
C13_SchemaPartition ==
    SchemaCompared =>
        LET r == ReturnedComparison
        IN  /\ Range(r.matching_columns) \cap Range(r.source_only_columns) = {}
            /\ Range(r.matching_columns) \cup Range(r.source_only_columns)
                 = ColumnNames(SourceTable)
            /\ Range(r.target_only_columns)
                 = { n \in ColumnNames(TargetTable) :
                       \A s \in ColumnNames(SourceTable) : Lower(s) # Lower(n) }
            /\ Len(r.matching_columns) + Len(r.source_only_columns)
                 = Cardinality(ColumnNames(SourceTable))
            /\ Len(r.target_only_columns) = Cardinality(Range(r.target_only_columns))

\* compare_schemas returned for schemas that match on a column spelled in
\* another case and differ on the others
C13_Witness ==
    /\ SchemaCompared
    /\ args.op = "compare_schemas"
    /\ \E s \in ColumnNames(SourceTable), t \in ColumnNames(TargetTable) :
           s # t /\ Lower(s) = Lower(t) /\ s \in Range(result.value.matching_columns)
    /\ result.value.target_only_columns = << >>


\* ------------------------------------------------------------------------
\* C14: type canonicalization
\* ------------------------------------------------------------------------

\* a direct call of the pure function op has returned or raised
Applied(op) == pc = "done" /\ args.op = op

\* its first and second argument
Argument == args.tables[1]

SecondArgument == args.tables[2]

\* the canonical token the table of _normalize_type lists for a type name
\* that is one of its synonyms in any letter case, otherwise the upper-cased
\* name without its parenthesised suffix
ListedToken(dtype) ==
    LET up      == Upper(dtype)
        entries == { i \in DOMAIN TypeMappings : TypeMappings[i][1] = up }
    IN  IF entries # {}
        THEN TypeMappings[CHOOSE i \in entries : TRUE][2]
        ELSE Split(up, "(")[1]

\* C14: _normalize_type maps every synonym of its table to the token listed
\* for it, in any letter case, and every other type name to its upper-cased
\* text before the parenthesised suffix; type_matches is equality of these
\* tokens.
C14_ListedTokens ==
    /\ Applied("_normalize_type") => result.value = ListedToken(Argument)
    /\ Applied("type_matches")
         => (result.value <=> (ListedToken(Argument) = ListedToken(SecondArgument)))


\* ------------------------------------------------------------------------
\* C15: injection patterns in identifiers
\* ------------------------------------------------------------------------

Keyword_UNION == << "U","N","I","O","N" >>

Keyword_DROP == << "D","R","O","P" >>

Keyword_OR == << "O","R" >>

\* a statement separator or a comment marker occurs in the text
SeparatorOrComment(x) ==
    \/ ContainsLiteral(x, << ";" >>)
    \/ ContainsLiteral(x, << "-","-" >>)
    \/ ContainsLiteral(x, << "/","*" >>)
    \/ ContainsLiteral(x, << "*","/" >>)

\* a clause in the shape of OR 1=1: the word OR with an equals sign after it
OrClause(x) ==
    \E e \in WordEnds(x, Keyword_OR) : \E a \in (e + 1) .. Len(x) : x[a] = "="

InjectionRejected ==
    result.status = "raised" /\ result.error.type = "SQLInjectionError"

\* C15 as stated: every identifier in which a separator, a comment marker,
\* the letters UNION or DROP, or an OR 1=1-shaped clause occurs is rejected
\* with SQLInjectionError.
C15_AsStated ==
    ( /\ Applied("sanitize_identifier")
      /\ \/ SeparatorOrComment(Argument)
         \/ ContainsLiteral(Argument, Keyword_UNION)
         \/ ContainsLiteral(Argument, Keyword_DROP)
         \/ OrClause(Argument) )
      => InjectionRejected

\* C15: an identifier of at most 255 characters in which a separator or a
\* comment marker occurs, or UNION or DROP as a whole word, or an OR
\* 1=1-shaped clause, is rejected with SQLInjectionError.
C15_InjectionRejected ==
    ( /\ Applied("sanitize_identifier")
      /\ Len(Argument) <= MaxIdentifierLength
      /\ \/ SeparatorOrComment(Argument)
         \/ ContainsWord(Argument, Keyword_UNION)
         \/ ContainsWord(Argument, Keyword_DROP)
         \/ OrClause(Argument) )
      => InjectionRejected

\* a well-formed qualified name whose last part is the word UNION was rejected
C15_Witness ==
    /\ Applied("sanitize_identifier")
    /\ Argument = << "a","." >> \o Keyword_UNION
    /\ InjectionRejected

\* ------------------------------------------------------------------------
\* C16: well-formed identifiers
\* ------------------------------------------------------------------------

\* [A-Za-z_][A-Za-z0-9_-]*
SegmentShape(seg) ==
    /\ seg # << >>
    /\ IsLetter(seg[1]) \/ seg[1] = "_"
    /\ \A i \in DOMAIN seg : IsWordChar(seg[i]) \/ seg[i] = "-"

\* one to three such segments separated by dots
IdentifierShape(x) ==
    LET parts == Split(x, ".")
    IN  Len(parts) \in 1 .. 3 /\ \A i \in DOMAIN parts : SegmentShape(parts[i])

ReturnedUnchanged == result.status = "returned" /\ result.value = Argument

\* what of the blocklist an identifier of that shape can contain: a double
\* hyphen, the prefix xp_, a keyword as a whole word, SELECT before FROM
BlocklistedName(x) ==
    \/ ContainsLiteral(x, << "-","-" >>)
    \/ ContainsLiteral(x, << "x","p","_" >>)
    \/ \E w \in { Keyword_UNION, Keyword_DROP,
                  << "D","E","L","E","T","E" >>, << "I","N","S","E","R","T" >>,
                  << "U","P","D","A","T","E" >>, << "E","X","E","C" >>,
                  << "C","R","E","A","T","E" >> } : ContainsWord(x, w)
    \/ NestedSelect(x)

\* C16 as stated: every identifier of one to three well-formed segments is
\* returned unchanged.
C16_AsStated ==
    (Applied("sanitize_identifier") /\ IdentifierShape(Argument)) => ReturnedUnchanged

\* C16: an identifier of one to three well-formed segments, at most 255
\* characters long and free of the blocklist's patterns, is returned unchanged.
C16_ShapeReturnedUnchanged ==
    ( /\ Applied("sanitize_identifier")
      /\ IdentifierShape(Argument)
      /\ Len(Argument) <= MaxIdentifierLength
      /\ ~BlocklistedName(Argument) )
      => ReturnedUnchanged

\* a three-part name with an underscore start, a digit, a capital and a hyphen
\* came back as given
C16_Witness ==
    /\ Applied("sanitize_identifier")
    /\ Argument = << "a",".","_","b","1",".","T","-","x" >>
    /\ ReturnedUnchanged

\* ------------------------------------------------------------------------
\* C17: re-quoting
\* ------------------------------------------------------------------------

\* C17: quote_identifier applied to what quote_identifier returned succeeds
\* and returns its argument.
C17_StableUnderRequoting == Applied("requote_identifier") => ReturnedUnchanged

\* ------------------------------------------------------------------------
\* C18: injection patterns in paths
\* ------------------------------------------------------------------------

\* C18 as stated: every path that matches a pattern of sanitize_identifier's
\* blocklist is rejected with SQLInjectionError.
C18_AsStated ==
    (Applied("sanitize_path") /\ MatchesDangerousPattern(Argument)) => InjectionRejected

\* C18: a path in which a statement separator or a comment marker occurs is
\* rejected with SQLInjectionError; any other non-empty path made of path
\* characters only is returned unchanged, whatever keywords it contains.
C18_PathBlocklist ==
    Applied("sanitize_path") =>
        /\ SeparatorOrComment(Argument) => InjectionRejected
        /\ ( /\ Argument # << >>
             /\ ~SeparatorOrComment(Argument)
             /\ \A i \in DOMAIN Argument : IsPathChar(Argument[i]) )
             => ReturnedUnchanged

\* a path with a line comment was rejected
C18_Witness ==
    /\ Applied("sanitize_path")
    /\ Argument = << "a","-","-","b" >>
    /\ InjectionRejected


\* ------------------------------------------------------------------------
\* C19: order of the differences
\* ------------------------------------------------------------------------

\* key a does not come after key b in ascending order: integers by value,
\* texts by collation; where a NULL key goes is the backend's null ordering
KeyNotAfter(a, b) ==
    \/ IsNull(a)
    \/ IsNull(b)
    \/ IsInt(a) /\ IsInt(b) /\ a.int <= b.int
    \/ /\ ~IsInt(a) /\ ~IsInt(b)
       /\ \E i, j \in DOMAIN Collation :
              i <= j /\ Collation[i] = a.str /\ Collation[j] = b.str

\* C19: the differences of every DiffResult diff returns are in ascending
\* order of key: no difference comes before one with a smaller key.
C19_AscendingKeys ==
    DiffReturned =>
        \A i, j \in DOMAIN Differences :
            i < j => KeyNotAfter(Differences[i].key, Differences[j].key)

\* a result that lists differences under key 1, key 2 and a NULL key
C19_Witness ==
    /\ DiffReturned
    /\ \E i, j, k \in DOMAIN Differences :
          /\ Differences[i].key = IntV(1)
          /\ Differences[j].key = IntV(2)
          /\ IsNull(Differences[k].key)


\* ------------------------------------------------------------------------
\* C20: the limit of diff
\* ------------------------------------------------------------------------

\* the hash-comparison statement a returned diff call issued last
ComparisonStatement == issued[Len(issued)]

\* C20: with limit = L > 0 the statement carries a trailing LIMIT L and at
\* most L differences are returned; without a limit the statement carries no
\* LIMIT; with any other limit (zero or negative) diff does not return a
\* result but fails with ValueError.
C20_LimitContract ==
    (pc = "done" /\ args.op = "diff") =>
        /\ (DiffReturned /\ args.limit = None) => ComparisonStatement.limit = None
        /\ (DiffReturned /\ args.limit # None /\ args.limit[1] > 0)
             => /\ ComparisonStatement.limit = args.limit
                /\ Len(Differences) <= args.limit[1]
        /\ (args.limit # None /\ args.limit[1] <= 0)
             => /\ result.status = "raised"
                /\ result.error.type \in { "ValueError", "SQLInjectionError",
                                           "TableNotFoundError", "SchemaError",
                                           "KeyColumnError", "QueryExecutionError" }


\* ------------------------------------------------------------------------
\* C21: missing tables
\* ------------------------------------------------------------------------

\* the name is one the sanitizer lets through and no table of the database
\* goes by it
Missing(table) ==
    /\ sanitize_identifier(table).ok
    /\ ~TableExists(db, sanitize_identifier(table).value)

Present(table) ==
    /\ sanitize_identifier(table).ok
    /\ TableExists(db, sanitize_identifier(table).value)

TableNotFound(table) ==
    /\ result.status = "raised"
    /\ result.error.type = "TableNotFoundError"
    /\ result.error.table = Some(table)

\* C21: when a table does not exist, diff, quick_check, compare_schemas,
\* get_schema and get_row_count raise TableNotFoundError naming the table as
\* the caller wrote it; with both tables missing the source is the one named.
C21_MissingTableNamed ==
    /\ (pc = "done" /\ args.op \in { "get_schema", "get_row_count" }
          /\ Missing(args.source_table))
         => TableNotFound(args.source_table)
    /\ (pc = "done" /\ args.op \in { "diff", "quick_check", "compare_schemas" })
         => /\ Missing(args.source_table) => TableNotFound(args.source_table)
            /\ (Present(args.source_table) /\ Missing(args.target_table))
                 => TableNotFound(args.target_table)

\* get_schema on a missing table whose name was written with a leading space
\* reported the name as written
C21_Witness ==
    /\ pc = "done"
    /\ args.op = "get_schema"
    /\ args.source_table = << " " >> \o Name_ghost
    /\ TableNotFound(args.source_table)


\* ------------------------------------------------------------------------
\* C22: the offset grammar
\* ------------------------------------------------------------------------

\* seconds of the unit a word names, with or without a final s; 0 for a word
\* that names none
SecondsOf(word) ==
    LET named(u) == word = u \/ word = u \o << "s" >>
    IN  CASE named(<< "s","e","c","o","n","d" >>) -> 1
          [] named(<< "m","i","n","u","t","e" >>) -> 60
          [] named(<< "h","o","u","r" >>)         -> 3600
          [] named(<< "d","a","y" >>)             -> 86400
          [] named(<< "w","e","e","k" >>)         -> 604800
          [] OTHER                                -> 0

AllDigits(s) == s # << >> /\ \A i \in DOMAIN s : IsDigit(s[i])

\* the text splits into an amount of n digits, a gap of g whitespace
\* characters and a unit word
SplitsAt(text, n, g) ==
    /\ n + g < Len(text)
    /\ AllDigits(SubSeq(text, 1, n))
    /\ \A i \in (n + 1) .. (n + g) : text[i] \in Whitespace
    /\ SecondsOf(SubSeq(text, n + g + 1, Len(text))) > 0

SecondsAt(text, n, g) ==
    DigitsToNat(SubSeq(text, 1, n)) * SecondsOf(SubSeq(text, n + g + 1, Len(text)))

OffsetReturned(seconds) == result.status = "returned" /\ result.value = seconds

OffsetRejected == result.status = "raised" /\ result.error.type = "ValueError"

\* C22 as stated: the strings accepted are exactly those that read, in any
\* letter case and with a trailing " ago" taken off, as an integer, one space
\* and a unit with an optional s; they give integer * seconds of the unit,
\* and every other string raises ValueError.
C22_AsStated ==
    Applied("parse_offset_to_seconds") =>
        LET text == offset_lower(Argument)
        IN  IF \E n \in 1 .. Len(text) : SplitsAt(text, n, 1)
            THEN \E n \in 1 .. Len(text) :
                    SplitsAt(text, n, 1) /\ OffsetReturned(SecondsAt(text, n, 1))
            ELSE OffsetRejected

\* C22: the strings accepted are exactly those that read, in any letter case,
\* without surrounding whitespace and with a trailing " ago" taken off, as
\* one or more digits, any run of whitespace (none included) and a unit with
\* an optional s; they give amount * seconds of the unit, and every other
\* string raises ValueError.
C22_OffsetGrammar ==
    Applied("parse_offset_to_seconds") =>
        LET text == offset_lower(Argument)
        IN  IF \E n \in 1 .. Len(text), g \in 0 .. Len(text) : SplitsAt(text, n, g)
            THEN \E n \in 1 .. Len(text), g \in 0 .. Len(text) :
                    SplitsAt(text, n, g) /\ OffsetReturned(SecondsAt(text, n, g))
            ELSE OffsetRejected

\* "5minutes ago", written without a gap, gave 300
C22_Witness ==
    /\ Applied("parse_offset_to_seconds")
    /\ Argument = << "5","m","i","n","u","t","e","s"," ","a","g","o" >>
    /\ OffsetReturned(300)

\* ------------------------------------------------------------------------
\* C23: the errors of offset parsing
\* ------------------------------------------------------------------------

\* two words of which the second names a unit and the first is no number
NonNumericAmount(offset) ==
    LET words == Split(offset_lower(offset), " ")
    IN  Len(words) = 2 /\ words[1] # << >> /\ ~AllDigits(words[1])
          /\ SecondsOf(words[2]) > 0

\* two words of which the first is a number and the second names no unit
UnrecognizedUnit(offset) ==
    LET words == Split(offset_lower(offset), " ")
    IN  Len(words) = 2 /\ AllDigits(words[1]) /\ words[2] # << >>
          /\ SecondsOf(words[2]) = 0

C24_NoTimeTravelOnDuckDB ==
    ( /\ Applied("build_count_query")
      /\ args.tables[2] = "duckdb"
      /\ result.status = "returned" )
      => \A i \in DOMAIN result.value.adapter_calls :
            result.value.adapter_calls[i].method
                \notin { "time_travel_clause", "wrap_table_with_time_travel" }


(***************************************************************************)
(* C25: the count query of a table spec                                    *)
(***************************************************************************)

CountSpec == args.tables[1]

GivenGroupBy == CountSpec.group_by # None /\ CountSpec.group_by[1] # << >>

GivenKey == args.tables[2] # None /\ args.tables[2][1] # << >>

RaisedError(type) == result.status = "raised" /\ result.error.type = type

ProducedForm(form) == result.status = "returned" /\ result.value.form = form

\* the one form the claim assigns to the request
FormDue ==
    IF GivenGroupBy THEN "group_by" ELSE IF GivenKey THEN "distinct" ELSE "rows"

\* the identifiers the due form interpolates: the table and the group-by
\* columns or the key
UsedIdentifiers ==
    { IF args.tables[3] # None THEN args.tables[3][1] ELSE CountSpec.table }
      \cup (IF GivenGroupBy
            THEN { CountSpec.group_by[1][i] : i \in DOMAIN CountSpec.group_by[1] }
            ELSE IF GivenKey THEN { args.tables[2][1] } ELSE {})

C26_PercentageRange ==
    DiffReturned =>
        /\ total_differences(result.value)
             <= Max(result.value.source_row_count, result.value.target_row_count)
        /\ RatioLeq(Ratio(0, 1), diff_percentage(result.value))
        /\ RatioLeq(diff_percentage(result.value), Ratio(100, 1))



\* ------------------------------------------------------------------------
\* C27: rows that differ have different hash inputs
\* ------------------------------------------------------------------------

\* C27: a source row and a target row under the same non-NULL key that
\* differ in the value or NULL-ness of a compared column have different
\* hash inputs, and diff without a limit reports the key as MODIFIED.
C27_DistinctHashInputs ==
    (DiffReturned /\ args.limit = None) =>
        \A i \in DOMAIN SourceTable.rows, j \in DOMAIN TargetTable.rows :
            (/\ SameKey(i, j)
             /\ ~IsNull(Cell(SourceTable, i, KeyColumn))
             /\ ValuesOf(SourceTable, i, Compared) # ValuesOf(TargetTable, j, Compared))
            => /\ HashInput(ValuesOf(SourceTable, i, Compared))
                    # HashInput(ValuesOf(TargetTable, j, Compared))
               /\ \E d \in DOMAIN Differences :
                      /\ Differences[d].key = Cell(SourceTable, i, KeyColumn)
                      /\ Differences[d].diff_type = "MODIFIED"



\* ------------------------------------------------------------------------
\* C28: quick_check against diff
\* ------------------------------------------------------------------------

QuickCheckDone == pc = "done" /\ args.op = "quick_check"

SchemaOfCall == SchemaComparison(SourceTable.columns, TargetTable.columns)

KeyValid == _validate_key_column(KeyColumn, SchemaOfCall).ok

\* the key values of the table are unique and none is NULL
UniqueNonNullKeys(table) ==
    /\ NULL \notin KeysOf(table, KeyColumn)
    /\ Cardinality(KeysOf(table, KeyColumn)) = Len(table.rows)

\* what diff would do with the arguments of the call and no limit: it
\* returns a result, and that result has is_match = True
DiffWouldMatch ==
    LET columns == ResolveColumns(args.columns, SchemaOfCall)
    IN  /\ columns # << >>
        /\ DifferingPairs(SourceTable, TargetTable, KeyColumn,
                          EnsureKey(KeyColumn, columns)) = {}

\* the caller names no columns, or names at least one and only columns that
\* both tables have
ColumnsInBoth ==
    \/ args.columns = None
    \/ /\ args.columns[1] # << >>
       /\ \A c \in Range(args.columns[1]) :
              HasColumn(SourceTable, c) /\ HasColumn(TargetTable, c)

KeyGateClosed ==
    ~KeyValid =>
        /\ result.status = "raised"
        /\ result.error.type = "KeyColumnError"
        /\ \A k \in DOMAIN issued : issued[k].kind # "aggregate_hash"

\* C28 as stated: on two tables with unique non-NULL keys quick_check
\* returns True exactly when diff with the same columns and no limit returns
\* is_match = True; when key validation fails quick_check raises
\* KeyColumnError and issues no aggregate-hash query
C28_AsStated ==
    QuickCheckDone =>
        /\ KeyGateClosed
        /\ (KeyValid /\ UniqueNonNullKeys(SourceTable) /\ UniqueNonNullKeys(TargetTable))
             => ((result.status = "returned" /\ result.value = TRUE) <=> DiffWouldMatch)

\* C28 amended: the same, for calls that name no columns or name at least
\* one column and only columns both tables have; quick_check then returns,
\* and returns True exactly when diff would return is_match = True
C28_QuickCheckAgreesWithDiff ==
    QuickCheckDone =>
        /\ KeyGateClosed
        /\ (/\ KeyValid
            /\ UniqueNonNullKeys(SourceTable) /\ UniqueNonNullKeys(TargetTable)
            /\ ColumnsInBoth)
             => /\ result.status = "returned"
                /\ result.value = TRUE <=> DiffWouldMatch

\* quick_check returned False for two tables with the same unique keys whose
\* rows differ in val, where diff would report a mismatch
C28_Witness ==
    /\ QuickCheckDone
    /\ KeyValid /\ ColumnsInBoth
    /\ UniqueNonNullKeys(SourceTable) /\ UniqueNonNullKeys(TargetTable)
    /\ SourceTable.rows # << >>
    /\ KeysOf(SourceTable, KeyColumn) = KeysOf(TargetTable, KeyColumn)
    /\ result.status = "returned" /\ result.value = FALSE
    /\ ~DiffWouldMatch



\* ------------------------------------------------------------------------
\* C29: the alias registry of DuckDBConnector
\* ------------------------------------------------------------------------

Registry == db._attached_databases

\* the registry lists exactly the databases attached in the backend
\* connection, each under the path it was attached from
RegistryMatchesBackend ==
    /\ DOMAIN Registry = DOMAIN db.backend
    /\ \A n \in DOMAIN Registry :
           /\ Registry[n].name = n
           /\ Registry[n].path = db.backend[n]

\* the step is a call of op that raised
CallFailed(op) == pc' = "done" /\ args'.op = op /\ result'.status = "raised"

\* the step is an attach_duckdb call whose alias the registry already holds
\* from the same path
ReAttachSamePath ==
    /\ pc' = "done" /\ args'.op = "attach_duckdb"
    /\ sanitize_identifier(args'.tables[1]).ok
    /\ sanitize_path(args'.tables[2]).ok
    /\ sanitize_identifier(args'.tables[1]).value \in DOMAIN Registry
    /\ Registry[sanitize_identifier(args'.tables[1]).value].path
         = sanitize_path(args'.tables[2]).value

ExistingEntryReturned ==
    /\ issued' = << >>
    /\ result' = Returned(Registry[sanitize_identifier(args'.tables[1]).value])
    /\ db' = db

\* C29 as stated: the registry holds exactly the aliases attached and not
\* since detached or cleared, a failed attach or detach leaves it unchanged,
\* and every re-attach of an alias from the same path issues no ATTACH and
\* returns the existing entry
C29_AsStated ==
    /\ []RegistryMatchesBackend
    /\ [][(CallFailed("attach_duckdb") \/ CallFailed("detach"))
            => db'._attached_databases = Registry]_vars
    /\ [][ReAttachSamePath => ExistingEntryReturned]_vars

\* C29 amended: the same, the re-attach returning the existing entry when
\* the file is still there; when it is gone the re-attach fails as any
\* attach of a missing file does and leaves the registry unchanged
C29_RegistryTracksAttachments ==
    /\ []RegistryMatchesBackend
    /\ [][(CallFailed("attach_duckdb") \/ CallFailed("detach"))
            => db'._attached_databases = Registry]_vars
    /\ [][ReAttachSamePath =>
            IF sanitize_path(args'.tables[2]).value \in db.files
            THEN ExistingEntryReturned
            ELSE CallFailed("attach_duckdb") /\ issued' = << >>]_vars

\* an attach_duckdb call that issued no statement and returned the entry the
\* registry holds, beside a second attached alias
C29_Witness ==
    /\ pc = "done" /\ args.op = "attach_duckdb"
    /\ issued = << >>
    /\ result.status = "returned"
    /\ result.value = Registry[result.value.name]
    /\ Cardinality(DOMAIN Registry) = 2
    /\ RegistryMatchesBackend



\* ------------------------------------------------------------------------
\* C30: the exit code in the JSON document of compare
\* ------------------------------------------------------------------------

\* C30: whatever the diff found and whatever the threshold and
\* --fail-on-modified, the exit_code field of the printed JSON document is
\* the code the process exits with: status 'match' with exit 0, status
\* 'mismatch' with exit 1.
C30_JsonExitCode ==
    (pc = "done" /\ args.op = "compare") =>
        /\ result.value.json.exit_code = result.value.exit_code
        /\ result.value.json.status = "match" <=> result.value.exit_code = 0
        /\ result.value.json.status = "mismatch" <=> result.value.exit_code = 1

====
